---- MODULE Spec2Model ----
(***************************************************************************)
(* HiveCloud cloud functions (src/functions/index.js, the second, mature   *)
(* copy of the file that starts at line 565): the chat-summary             *)
(* ("chatroom") updaters, the offer rating recalculation and the cascading *)
(* deletion of a user's data, as state machines over the document store.   *)
(*                                                                         *)
(* The document store is the environment.  A transaction attempt reads the *)
(* documents it gets through transaction.get, buffers at most one write    *)
(* and commits; the commit of a write fails when a document the attempt    *)
(* read has been written since, and runTransaction then runs the update    *)
(* function again from its first line.  Queries issued on `firestore`      *)
(* directly (not through the transaction object) are plain reads.          *)
(***************************************************************************)
EXTENDS Integers, Sequences, FiniteSets, TLC

VARIABLES
    users,          \* collection users: uid -> document (DOMAIN = existing docs)
    messages,       \* chatrooms/{a_b}/messages, in order of creation
    userChatrooms,  \* userChatrooms/{uid}/chatroomsOfUser/{chatroomUid}:
                    \*   <<uid, chatroomUid>> -> document
    updateEvents,   \* onUpdate events raised for message documents
    invocation,     \* the handler invocations started so far
    senderTx,       \* per invocation: getUpdateSenderChatroomOnCreatePromise
    receiverTx,     \* per invocation: getUpdateReceiverChatroomOnCreatePromise
    updateTx,       \* per invocation: getUpdateReceiverChatroomOnUpdatePromise
    reviews,        \* reviews/{user_offer}/reviewsOfOffer/{reviewUid}:
                    \*   <<offerReviewsDocument, reviewUid>> -> document
    reviewEvents,   \* the review writes, in order; each is followed by a call
    ratingTx,       \* per invocation: the transaction of recalculateRating
    recalculation,  \* one call of recalculateOfferRatings: arguments, result
    userFavorites,  \* userFavorites/{uid}/favoritesOfUser: set of <<uid, id>>
    online,         \* Realtime Database /online/{uid}: uids with a value
    bucket,         \* storage bucket: the files that exist
    cascade,        \* the invocation of onUserDocumentDelete
    chatroomDeletes, \* per deleted chat summary <<uid, chatroomUid>>: the
                    \*   invocation of onChatroomOfUserDelete it raised
    keys,           \* calls of getChatroomUid: arguments and results
    handler         \* the last invocation of onUpdateUserNameAndPic or of
                    \*   onUserStatusChange: its event and its position

vars == <<users, messages, userChatrooms, updateEvents, invocation,
          senderTx, receiverTx, updateTx,
          reviews, reviewEvents, ratingTx, recalculation,
          userFavorites, online, bucket, cascade, chatroomDeletes,
          keys, handler>>

ratingVars == <<reviews, reviewEvents, ratingTx, recalculation, keys, handler>>
cascadeVars == <<userFavorites, online, bucket, cascade, chatroomDeletes>>

(***************************************************************************)
(* Bounds of the model.                                                    *)
(***************************************************************************)
MaxMessages == 2        \* message documents created in the relationship
MaxTimestamp == 2       \* message timestamps are drawn from 1..MaxTimestamp
MaxInvocations == 2     \* handler invocations (deliveries, duplicates included)
MaxAttempts == 2        \* attempts runTransaction makes before it rejects
MaxReviews == 2         \* review documents
MaxRating == 2          \* ratings are drawn from 1..MaxRating
MaxDocs == 3            \* documents a collection to delete starts with
MaxUidLen == 2          \* code units in an identifier given to getChatroomUid
MaxReviewWrites == 3    \* writes of review documents when reviews are also updated
MaxOffers == 2          \* offers in the offerList of a deleted user
\* const deleteCollectionBatchSize = 100, scaled down with the collections
deleteCollectionBatchSize == 2

\* Identifiers are JavaScript strings: sequences of UTF-16 code units.
Underscore == <<95>>
UidA == <<97>>
UidB == <<98>>
Uids == {UidA, UidB}
Invocations == 1..MaxInvocations

\* JavaScript's undefined, for a number and for a string.
UndefinedNum == -1
UndefinedStr == "<undefined>"

\* obj.field of a JavaScript object held as a function on its field names.
NumField(obj, f) == IF f \in DOMAIN obj THEN obj[f] ELSE UndefinedNum
StrField(obj, f) == IF f \in DOMAIN obj THEN obj[f] ELSE UndefinedStr

\* `${x}` for a string x.
TemplateStr(x) == IF x = UndefinedStr THEN "undefined" ELSE x

\* Object.assign-like merge done by transaction.update / set(..., {merge: true}).
MergeFields(doc, obj) ==
    [f \in DOMAIN doc \cup DOMAIN obj |-> IF f \in DOMAIN obj THEN obj[f] ELSE doc[f]]

\* message_text of the i-th message created.
MessageTexts == <<"t1", "t2", "t3", "t4", "t5", "t6">>

(***************************************************************************)
(* Helpers of index.js.                                                    *)
(***************************************************************************)
getUserNameOrUsername(name, userName) ==
    IF userName # UndefinedStr /\ userName # "" THEN userName ELSE name

getNewMessageCount(tempNewMessageCount) ==
    IF tempNewMessageCount # UndefinedNum THEN tempNewMessageCount ELSE 0

\* s < t on JavaScript strings: by code units, a proper prefix first.
StrLess(s, t) ==
    \E k \in 1..(Len(t)) :
        /\ \A j \in 1..(k - 1) : j <= Len(s) /\ s[j] = t[j]
        /\ (k > Len(s) \/ (k - 1 < Len(s) /\ s[k] < t[k]))

\* The two identifiers joined as given, without comparing them.
joinAsGiven(senderUid, receiverUid) == senderUid \o Underscore \o receiverUid

getChatroomUid(senderUid, receiverUid) ==
    IF StrLess(senderUid, receiverUid)
    THEN senderUid \o Underscore \o receiverUid
    ELSE receiverUid \o Underscore \o senderUid

getUserChatroomRef(userUid, chatroomUid) == <<userUid, chatroomUid>>

\* secondUserUid is a string already: `${secondUserUid}` is the string itself.
getUpdatedChatroom(secondUserUid, secondUserName, secondUserPicUrl) ==
    [secondUserUid |-> secondUserUid,
     secondUserName |-> TemplateStr(secondUserName),
     secondUserPicUrl |-> TemplateStr(secondUserPicUrl)]

updateChatroomLastMessage(chatroom, messageText, messageTimestamp) ==
    MergeFields(chatroom, [lastMessageText |-> TemplateStr(messageText),
                           lastMessageTimestamp |-> messageTimestamp])

\* The documents getReceiverChatroomUnreadMessagesPromise's query returns.
UnreadMessages(receiverUid) ==
    {i \in DOMAIN messages :
        messages[i].isRead = FALSE /\ messages[i].receiver_uid = receiverUid}

\* snapshot.empty ? 0 : snapshot.size
getReceiverChatroomUnreadMessagesPromise(receiverUid) ==
    Cardinality(UnreadMessages(receiverUid))

(***************************************************************************)
(* A transaction (one runTransaction call) of an invocation.               *)
(*   pc        idle | get | query | commit | done | exhausted | threw      *)
(*   attempts  attempts that ended in a conflict                           *)
(*   conflict  a document this attempt read was written since              *)
(*   snap      <<>> (doc.data() undefined) or <<document>>, as read        *)
(*   updated   the object the closure keeps outside the update function    *)
(*   write     <<>> or <<"set", obj>> or <<"update", obj>>, buffered       *)
(*   wrote     the transaction committed a write                           *)
(*   promise   the promise the updater returns: pending | resolved |       *)
(*             rejected                                                    *)
(***************************************************************************)
NoObject == [x \in {} |-> 0]

TxIdle ==
    [pc |-> "idle", attempts |-> 0, conflict |-> FALSE, snap |-> <<>>,
     updated |-> NoObject, write |-> <<>>, wrote |-> FALSE, promise |-> "pending"]

TxStart(obj) == [TxIdle EXCEPT !.pc = "get", !.updated = obj]

\* A chain without the .catch: a rejection of runTransaction goes through.
ThenOnly(pc) == IF pc = "done" THEN "resolved" ELSE "rejected"

\* runTransaction(...).then(result => null).catch(err => { log; return null })
ThenCatch(pc) == "resolved"

TxEnd(pc, wrote) == [TxIdle EXCEPT !.pc = pc, !.wrote = wrote, !.promise = ThenCatch(pc)]

TxFinished(tx) == tx.pc \in {"idle", "done", "exhausted", "threw"}

\* transaction.get(ref): doc.data()
DocData(collection, id) ==
    IF id \in DOMAIN collection THEN <<collection[id]>> ELSE <<>>

\* Every write applied as a set: the document becomes the object written.
ApplyAsSet(collection, id, write) ==
    [k \in DOMAIN collection \cup {id} |-> IF k = id THEN write[2] ELSE collection[k]]

\* The collection after the buffered write to document id is applied.
ApplyWrite(collection, id, write) ==
    IF write[1] = "set"
    THEN [k \in DOMAIN collection \cup {id} |->
            IF k = id THEN write[2] ELSE collection[k]]
    ELSE [collection EXCEPT ![id] = MergeFields(collection[id], write[2])]

\* Attempts in flight that read one of the documents written see a conflict
\* at their commit.
MarkConflicts(txs, refs, docs) ==
    [h \in DOMAIN txs |->
        IF txs[h].pc \in {"query", "commit"} /\ refs[h] \in docs
        THEN [txs[h] EXCEPT !.conflict = TRUE]
        ELSE txs[h]]

\* runTransaction after a failed commit: run the update function again, or
\* reject once the attempts are used up (the .catch then resolves null).
\* Only `updated` outlives the attempt: it is declared outside the function.
TxRetry(tx) ==
    IF tx.attempts + 1 >= MaxAttempts
    THEN TxEnd("exhausted", FALSE)
    ELSE [TxIdle EXCEPT !.pc = "get", !.attempts = tx.attempts + 1,
                        !.updated = tx.updated]

(***************************************************************************)
(* Invocations.  An invocation is "none" until the runtime delivers an     *)
(* event to it; the runtime may deliver the same event several times and   *)
(* in any order.                                                           *)
(***************************************************************************)
\* message: the index of the message, or of the review write, it is about
\* notification: the promise of sendToDevice, "none" when no send was asked
\* change: isRead of change.before and of change.after, for an update event
NoInvocation == [kind |-> "none", message |-> 0, notification |-> "none", change |-> <<>>]

NextInvocation(h) ==
    /\ invocation[h].kind = "none"
    /\ \A g \in Invocations : g < h => invocation[g].kind # "none"

SenderUid(h) == messages[invocation[h].message].sender_uid
ReceiverUid(h) == messages[invocation[h].message].receiver_uid
ChatroomUid(h) == getChatroomUid(SenderUid(h), ReceiverUid(h))
senderChatroomRef(h) == getUserChatroomRef(SenderUid(h), ChatroomUid(h))
receiverChatroomRef(h) == getUserChatroomRef(ReceiverUid(h), ChatroomUid(h))

\* Per invocation, the document its transactions get.
SenderRefs ==
    [h \in Invocations |->
        IF invocation[h].kind = "create" THEN senderChatroomRef(h) ELSE <<>>]
ReceiverRefs ==
    [h \in Invocations |->
        IF invocation[h].kind \in {"create", "update"} THEN receiverChatroomRef(h) ELSE <<>>]

\* The last writes of a committed attempt: the document, and the conflict
\* every other attempt that read the document will meet.
CommitSender(h, id, write) ==
    /\ userChatrooms' = ApplyWrite(userChatrooms, id, write)
    /\ senderTx' = [MarkConflicts(senderTx, SenderRefs, {id})
                        EXCEPT ![h] = TxEnd("done", TRUE)]
    /\ receiverTx' = MarkConflicts(receiverTx, ReceiverRefs, {id})
    /\ updateTx' = MarkConflicts(updateTx, ReceiverRefs, {id})

CommitReceiver(h, id, write) ==
    /\ userChatrooms' = ApplyWrite(userChatrooms, id, write)
    /\ senderTx' = MarkConflicts(senderTx, SenderRefs, {id})
    /\ receiverTx' = [MarkConflicts(receiverTx, ReceiverRefs, {id})
                        EXCEPT ![h] = TxEnd("done", TRUE)]
    /\ updateTx' = MarkConflicts(updateTx, ReceiverRefs, {id})

CommitUpdate(h, id, write) ==
    /\ userChatrooms' = ApplyWrite(userChatrooms, id, write)
    /\ senderTx' = MarkConflicts(senderTx, SenderRefs, {id})
    /\ receiverTx' = MarkConflicts(receiverTx, ReceiverRefs, {id})
    /\ updateTx' = [MarkConflicts(updateTx, ReceiverRefs, {id})
                        EXCEPT ![h] = TxEnd("done", TRUE)]

(***************************************************************************)
(* Ground truth, written by the clients.                                   *)
(***************************************************************************)
\* A client creates a message document (isRead false).
CreateMessage(s, r, ts) ==
    /\ Len(messages) < MaxMessages
    /\ s # r
    /\ messages' = Append(messages,
            [sender_uid |-> s, receiver_uid |-> r,
             message_text |-> MessageTexts[Len(messages) + 1],
             timestamp |-> ts, isRead |-> FALSE])
    /\ UNCHANGED <<users, userChatrooms, updateEvents, invocation,
                   senderTx, receiverTx, updateTx>>
    /\ UNCHANGED <<ratingVars, cascadeVars>>

\* The receiver's client marks a message as read; the store raises onUpdate.
MarkRead(i) ==
    /\ i \in DOMAIN messages
    /\ messages[i].isRead = FALSE
    /\ messages' = [messages EXCEPT ![i].isRead = TRUE]
    /\ updateEvents' = updateEvents \cup
            {[message |-> i, before |-> FALSE, after |-> TRUE]}
    /\ UNCHANGED <<users, userChatrooms, invocation, senderTx, receiverTx, updateTx>>
    /\ UNCHANGED <<ratingVars, cascadeVars>>

(***************************************************************************)
(* exports.onNewChatMessage                                                *)
(***************************************************************************)
\* admin.messaging().sendToDevice(receiverToken, payload): the library
\* checks the type of the token in the call and throws when it is not a
\* non-empty string; else it returns a promise.
sendToDevice(receiverToken) ==
    IF receiverToken = UndefinedStr \/ receiverToken = "" THEN "threw" ELSE "pending"

\* The payload holds strings made by templates; it does not decide the call.
getSendNotificationPromise(receiverToken) == sendToDevice(receiverToken)

onNewChatMessage(h, i) ==
    /\ NextInvocation(h)
    /\ i \in DOMAIN messages
    /\ LET message == messages[i]
           senderUid == message.sender_uid
           receiverUid == message.receiver_uid
       IN  IF senderUid \in DOMAIN users /\ receiverUid \in DOMAIN users
           THEN LET sender == users[senderUid]
                    receiver == users[receiverUid]
                    senderName == getUserNameOrUsername(
                        StrField(sender, "name"), StrField(sender, "username"))
                    senderUserPicUrl == StrField(sender, "userPicUrl")
                    receiverName == getUserNameOrUsername(
                        StrField(receiver, "name"), StrField(receiver, "username"))
                    receiverUserPicUrl == StrField(receiver, "userPicUrl")
                    sendNotificationPromise == getSendNotificationPromise(
                        StrField(receiver, "fcm_token"))
                IN  IF sendNotificationPromise = "threw"
                    THEN \* the .then callback throws before the updaters are
                         \* created: the handler rejects
                         /\ invocation' = [invocation EXCEPT ![h] =
                                [NoInvocation EXCEPT !.kind = "rejected", !.message = i,
                                                     !.notification = "threw"]]
                         /\ UNCHANGED <<senderTx, receiverTx>>
                    ELSE
                    /\ invocation' = [invocation EXCEPT ![h] =
                            [NoInvocation EXCEPT !.kind = "create", !.message = i,
                                !.notification = sendNotificationPromise]]
                    \* for the sender's chatroom the second user is the receiver
                    /\ senderTx' = [senderTx EXCEPT ![h] = TxStart(
                            getUpdatedChatroom(receiverUid, receiverName, receiverUserPicUrl))]
                    \* for the receiver's chatroom the second user is the sender
                    /\ receiverTx' = [receiverTx EXCEPT ![h] = TxStart(
                            getUpdatedChatroom(senderUid, senderName, senderUserPicUrl))]
           ELSE \* sender.name / receiver.name of undefined: the handler rejects
                /\ invocation' = [invocation EXCEPT
                            ![h] = [NoInvocation EXCEPT !.kind = "rejected", !.message = i]]
                /\ UNCHANGED <<senderTx, receiverTx>>
    /\ UNCHANGED <<users, messages, userChatrooms, updateEvents, updateTx>>
    /\ UNCHANGED <<ratingVars, cascadeVars>>

(***************************************************************************)
(* getUpdateSenderChatroomOnCreatePromise                                  *)
(***************************************************************************)
\* The update function, from doc.data() to the write it buffers.
SenderOnCreateBody(snap, updatedSenderChatroom, messageText, messageTimestamp) ==
    LET updated == updateChatroomLastMessage(
                        updatedSenderChatroom, messageText, messageTimestamp)
    IN  [updated |-> updated,
         write |->
            IF snap = <<>>
            THEN <<"set", updated>>
            ELSE LET senderChatroomCurrentLastMessageTimestamp ==
                         NumField(snap[1], "lastMessageTimestamp")
                 IN  IF \/ senderChatroomCurrentLastMessageTimestamp = UndefinedNum
                        \/ messageTimestamp > senderChatroomCurrentLastMessageTimestamp
                     THEN <<"update", updated>>
                     ELSE <<>>]

SenderGet(h) ==
    /\ senderTx[h].pc = "get"
    /\ LET message == messages[invocation[h].message]
           body == SenderOnCreateBody(DocData(userChatrooms, senderChatroomRef(h)),
                        senderTx[h].updated, message.message_text, message.timestamp)
       IN  senderTx' = [senderTx EXCEPT ![h].pc = "commit",
                                        ![h].updated = body.updated,
                                        ![h].write = body.write]
    /\ UNCHANGED <<users, messages, userChatrooms, updateEvents, invocation,
                   receiverTx, updateTx>>
    /\ UNCHANGED <<ratingVars, cascadeVars>>

SenderCommit(h) ==
    /\ senderTx[h].pc = "commit"
    /\ IF senderTx[h].write = <<>>
       THEN /\ senderTx' = [senderTx EXCEPT ![h] = TxEnd("done", FALSE)]
            /\ UNCHANGED <<userChatrooms, receiverTx, updateTx>>
       ELSE IF senderTx[h].conflict
       THEN /\ senderTx' = [senderTx EXCEPT ![h] = TxRetry(senderTx[h])]
            /\ UNCHANGED <<userChatrooms, receiverTx, updateTx>>
       ELSE CommitSender(h, senderChatroomRef(h), senderTx[h].write)
    /\ UNCHANGED <<users, messages, updateEvents, invocation>>
    /\ UNCHANGED <<ratingVars, cascadeVars>>

(***************************************************************************)
(* getUpdateReceiverChatroomOnCreatePromise                                *)
(***************************************************************************)
\* The second .then of the update function: from the documents read to the
\* write it buffers.
ReceiverOnCreateBody(snap, updatedReceiverChatroom, unreadMessageCount, messageText, messageTimestamp) ==
    LET receiverChatroomCurrentLastMessageTimestamp ==
            IF snap # <<>> THEN NumField(snap[1], "lastMessageTimestamp")
                           ELSE UndefinedNum
        receiverChatroomCurrentNewMessageCount ==
            IF snap # <<>> THEN NumField(snap[1], "newMessageCount") ELSE 0
        isCountUpdated == unreadMessageCount # receiverChatroomCurrentNewMessageCount
        isLastMessageUpdated ==
            \/ receiverChatroomCurrentLastMessageTimestamp = UndefinedNum
            \/ messageTimestamp > receiverChatroomCurrentLastMessageTimestamp
        counted == IF isCountUpdated
                   THEN MergeFields(updatedReceiverChatroom,
                                    [newMessageCount |-> unreadMessageCount])
                   ELSE updatedReceiverChatroom
        updated == IF isLastMessageUpdated
                   THEN updateChatroomLastMessage(counted, messageText, messageTimestamp)
                   ELSE counted
    IN  [updated |-> updated,
         write |->
            IF snap = <<>>
            THEN <<"set", updated>>
            ELSE IF isCountUpdated \/ isLastMessageUpdated
                 THEN <<"update", updated>>
                 ELSE <<>>]

ReceiverGet(h) ==
    /\ receiverTx[h].pc = "get"
    /\ receiverTx' = [receiverTx EXCEPT
            ![h].pc = "query",
            ![h].snap = DocData(userChatrooms, receiverChatroomRef(h))]
    /\ UNCHANGED <<users, messages, userChatrooms, updateEvents, invocation,
                   senderTx, updateTx>>
    /\ UNCHANGED <<ratingVars, cascadeVars>>

ReceiverQuery(h) ==
    /\ receiverTx[h].pc = "query"
    /\ LET message == messages[invocation[h].message]
           body == ReceiverOnCreateBody(receiverTx[h].snap, receiverTx[h].updated,
                        getReceiverChatroomUnreadMessagesPromise(ReceiverUid(h)),
                        message.message_text, message.timestamp)
       IN  receiverTx' = [receiverTx EXCEPT ![h].pc = "commit",
                                            ![h].snap = <<>>,
                                            ![h].updated = body.updated,
                                            ![h].write = body.write]
    /\ UNCHANGED <<users, messages, userChatrooms, updateEvents, invocation,
                   senderTx, updateTx>>
    /\ UNCHANGED <<ratingVars, cascadeVars>>

ReceiverCommit(h) ==
    /\ receiverTx[h].pc = "commit"
    /\ IF receiverTx[h].write = <<>>
       THEN /\ receiverTx' = [receiverTx EXCEPT ![h] = TxEnd("done", FALSE)]
            /\ UNCHANGED <<userChatrooms, senderTx, updateTx>>
       ELSE IF receiverTx[h].conflict
       THEN /\ receiverTx' = [receiverTx EXCEPT ![h] = TxRetry(receiverTx[h])]
            /\ UNCHANGED <<userChatrooms, senderTx, updateTx>>
       ELSE CommitReceiver(h, receiverChatroomRef(h), receiverTx[h].write)
    /\ UNCHANGED <<users, messages, updateEvents, invocation>>
    /\ UNCHANGED <<ratingVars, cascadeVars>>

(***************************************************************************)
(* exports.onUpdateChatMessage, getUpdateReceiverChatroomOnUpdatePromise   *)
(***************************************************************************)
\* An update counts whenever the new message is read.
newMessageIsRead(oldIsRead, newIsRead) == newIsRead = TRUE

\* The else branch of: oldMessage.isRead === true || newMessage.isRead === false
isMarkedAsRead(oldIsRead, newIsRead) == ~(oldIsRead = TRUE \/ newIsRead = FALSE)

onUpdateChatMessage(h, e) ==
    /\ NextInvocation(h)
    /\ e \in updateEvents
    /\ invocation' = [invocation EXCEPT
            ![h] = [NoInvocation EXCEPT !.kind = "update", !.message = e.message,
                                        !.change = <<e.before, e.after>>]]
    /\ IF isMarkedAsRead(e.before, e.after)
       THEN updateTx' = [updateTx EXCEPT ![h] = TxStart(NoObject)]
       ELSE \* not marked as read during this update: return null
            UNCHANGED updateTx
    /\ UNCHANGED <<users, messages, userChatrooms, updateEvents, senderTx, receiverTx>>
    /\ UNCHANGED <<ratingVars, cascadeVars>>

\* The count written with set: the document becomes the count alone.
ReceiverOnUpdateSet(currentReceiverNewMessageCount, unreadMessageCount) ==
    IF unreadMessageCount # currentReceiverNewMessageCount
    THEN <<"set", [newMessageCount |-> unreadMessageCount]>>
    ELSE <<>>

\* The second .then of the update function; snapshot is null when the first
\* .then found the stored count to be 0 already.
ReceiverOnUpdateBody(currentReceiverNewMessageCount, unreadMessageCount) ==
    IF unreadMessageCount # currentReceiverNewMessageCount
    THEN <<"update", [newMessageCount |-> unreadMessageCount]>>
    ELSE <<>>

UpdateGet(h) ==
    /\ updateTx[h].pc = "get"
    /\ LET snap == DocData(userChatrooms, receiverChatroomRef(h))
       IN  updateTx' = [updateTx EXCEPT ![h] =
                IF snap = <<>>
                THEN \* receiverChatroom.newMessageCount of undefined throws:
                     \* the transaction rejects, the .catch resolves null
                     TxEnd("threw", FALSE)
                ELSE IF getNewMessageCount(NumField(snap[1], "newMessageCount")) = 0
                THEN [@ EXCEPT !.pc = "commit"]
                ELSE [@ EXCEPT !.pc = "query", !.snap = snap]]
    /\ UNCHANGED <<users, messages, userChatrooms, updateEvents, invocation,
                   senderTx, receiverTx>>
    /\ UNCHANGED <<ratingVars, cascadeVars>>

UpdateQuery(h) ==
    /\ updateTx[h].pc = "query"
    /\ updateTx' = [updateTx EXCEPT
            ![h].pc = "commit",
            ![h].snap = <<>>,
            ![h].write = ReceiverOnUpdateBody(
                getNewMessageCount(NumField(updateTx[h].snap[1], "newMessageCount")),
                getReceiverChatroomUnreadMessagesPromise(ReceiverUid(h)))]
    /\ UNCHANGED <<users, messages, userChatrooms, updateEvents, invocation,
                   senderTx, receiverTx>>
    /\ UNCHANGED <<ratingVars, cascadeVars>>

UpdateCommit(h) ==
    /\ updateTx[h].pc = "commit"
    /\ IF updateTx[h].write = <<>>
       THEN /\ updateTx' = [updateTx EXCEPT ![h] = TxEnd("done", FALSE)]
            /\ UNCHANGED <<userChatrooms, senderTx, receiverTx>>
       ELSE IF updateTx[h].conflict
       THEN /\ updateTx' = [updateTx EXCEPT ![h] = TxRetry(updateTx[h])]
            /\ UNCHANGED <<userChatrooms, senderTx, receiverTx>>
       ELSE CommitUpdate(h, receiverChatroomRef(h), updateTx[h].write)
    /\ UNCHANGED <<users, messages, updateEvents, invocation>>
    /\ UNCHANGED <<ratingVars, cascadeVars>>

(***************************************************************************)
(* The parts of the store a specification does not use stay as they are    *)
(* here.                                                                   *)
(***************************************************************************)
NoRecalculation ==
    [snapshot |-> <<>>, providerUser |-> NoObject, offerUid |-> <<>>, result |-> <<>>]

NoCascade ==
    [pc |-> "none", userUid |-> <<>>, deletedUser |-> NoObject, branch |-> <<>>]

ChatIdle ==
    /\ messages = <<>>
    /\ userChatrooms = NoObject
    /\ updateEvents = {}
    /\ senderTx = [h \in Invocations |-> TxIdle]
    /\ receiverTx = [h \in Invocations |-> TxIdle]
    /\ updateTx = [h \in Invocations |-> TxIdle]

\* No invocation of onUpdateUserNameAndPic or onUserStatusChange yet.
\*   pc       none | raised | returned | query | update | done
\*   before, after   the user document before and after the update
\*   newStatus       change.after.val() of /online/{userUid}
\*   pending  the copies still to update
NoHandler ==
    [name |-> "none", pc |-> "none", userUid |-> <<>>, before |-> NoObject,
     after |-> NoObject, newStatus |-> TRUE, pending |-> {}]

RatingIdle ==
    /\ reviews = NoObject
    /\ reviewEvents = <<>>
    /\ ratingTx = [h \in Invocations |-> TxIdle]
    /\ recalculation = NoRecalculation
    /\ keys = <<>>
    /\ handler = NoHandler

CascadeIdle ==
    /\ userFavorites = {}
    /\ online = {}
    /\ bucket = {}
    /\ cascade = NoCascade
    /\ chatroomDeletes = NoObject

(***************************************************************************)
(* The chat specification: two users who both exist, their relationship.   *)
(***************************************************************************)
UserDoc(u) ==
    [name |-> IF u = UidA THEN "Ann" ELSE "Bob",
     username |-> IF u = UidA THEN "" ELSE "bob77",
     userPicUrl |-> IF u = UidA THEN "pic_a" ELSE "",
     fcm_token |-> IF u = UidA THEN "token_a" ELSE "token_b"]

\* The chat summary of u for the relationship of UidA and UidB.
ChatroomRefOf(u) == getUserChatroomRef(u, getChatroomUid(UidA, UidB))

Init ==
    /\ users = [u \in Uids |-> UserDoc(u)]
    /\ invocation = [h \in Invocations |-> NoInvocation]
    /\ ChatIdle
    /\ RatingIdle
    /\ CascadeIdle

Next ==
    \/ \E s, r \in Uids, ts \in 1..MaxTimestamp : CreateMessage(s, r, ts)
    \/ \E i \in 1..MaxMessages : MarkRead(i)
    \/ \E h \in Invocations, i \in 1..MaxMessages : onNewChatMessage(h, i)
    \/ \E h \in Invocations : \E e \in updateEvents : onUpdateChatMessage(h, e)
    \/ \E h \in Invocations :
        \/ SenderGet(h) \/ SenderCommit(h)
        \/ ReceiverGet(h) \/ ReceiverQuery(h) \/ ReceiverCommit(h)
        \/ UpdateGet(h) \/ UpdateQuery(h) \/ UpdateCommit(h)

Spec == Init /\ [][Next]_vars

(***************************************************************************)
(* States of the chat specification the properties speak about.            *)
(***************************************************************************)
CreateHandled(i) ==
    \E h \in Invocations : invocation[h].kind = "create" /\ invocation[h].message = i

UpdateHandled(e) ==
    \E h \in Invocations : invocation[h].kind = "update" /\ invocation[h].message = e.message

AllTxFinished ==
    \A h \in Invocations :
        TxFinished(senderTx[h]) /\ TxFinished(receiverTx[h]) /\ TxFinished(updateTx[h])

\* Every event raised so far was delivered at least once and every handler
\* started has returned.
Quiescent ==
    /\ AllTxFinished
    /\ \A i \in DOMAIN messages : CreateHandled(i)
    /\ \A e \in updateEvents : UpdateHandled(e)

\* No runTransaction call used up its attempts.
NoTxExhausted ==
    \A h \in Invocations :
        /\ senderTx[h].pc # "exhausted"
        /\ receiverTx[h].pc # "exhausted"
        /\ updateTx[h].pc # "exhausted"

\* newMessageCount of u's chat summary, undefined read as 0.
StoredNewMessageCount(u) ==
    IF ChatroomRefOf(u) \in DOMAIN userChatrooms
    THEN getNewMessageCount(NumField(userChatrooms[ChatroomRefOf(u)], "newMessageCount"))
    ELSE 0

\* C1: once every create event of the relationship has been handled and all
\* handlers have returned (no transaction ran out of attempts), the receiver's
\* newMessageCount equals the number of unread messages addressed to that
\* receiver.
C1_FinalUnreadCount ==
    (Quiescent /\ NoTxExhausted)
        => \A u \in Uids : StoredNewMessageCount(u) = Cardinality(UnreadMessages(u))

\* C2: when m1 is the only message and both its create event and its
\* mark-as-read update have been handled, in whatever interleaving, the
\* receiver's newMessageCount is 0.
C2_ReadBeforeCreateHandled ==
    (/\ Quiescent /\ NoTxExhausted
     /\ Len(messages) = 1 /\ messages[1].isRead)
        => StoredNewMessageCount(messages[1].receiver_uid) = 0

\* C3: lastMessageTimestamp of a chat summary never decreases.
C3_LastMessageMonotonic ==
    [][\A u \in Uids :
        (ChatroomRefOf(u) \in DOMAIN userChatrooms
            /\ ChatroomRefOf(u) \in DOMAIN userChatrooms')
            => NumField(userChatrooms'[ChatroomRefOf(u)], "lastMessageTimestamp")
                  >= NumField(userChatrooms[ChatroomRefOf(u)], "lastMessageTimestamp")]_vars

Max(S) == CHOOSE x \in S : \A y \in S : y <= x

\* The messages of u's relationship whose create event was delivered.
HandledMessages(u) ==
    {i \in DOMAIN messages :
        CreateHandled(i) /\ u \in {messages[i].sender_uid, messages[i].receiver_uid}}

AllCreateTxDone ==
    \A h \in Invocations :
        invocation[h].kind = "create"
            => senderTx[h].pc = "done" /\ receiverTx[h].pc = "done"

\* C5: after the create handlers of all messages have completed without
\* failure, each party's copy holds the greatest timestamp among the messages
\* handled for it, and the text of a message with that timestamp.
C5_FinalLastMessage ==
    (/\ AllTxFinished /\ AllCreateTxDone
     /\ \A i \in DOMAIN messages : CreateHandled(i))
        => \A u \in Uids :
            HandledMessages(u) # {} =>
                /\ ChatroomRefOf(u) \in DOMAIN userChatrooms
                /\ NumField(userChatrooms[ChatroomRefOf(u)], "lastMessageTimestamp")
                      = Max({messages[i].timestamp : i \in HandledMessages(u)})
                /\ \E i \in HandledMessages(u) :
                      /\ messages[i].timestamp
                            = NumField(userChatrooms[ChatroomRefOf(u)],
                                       "lastMessageTimestamp")
                      /\ messages[i].message_text
                            = StrField(userChatrooms[ChatroomRefOf(u)],
                                       "lastMessageText")

(***************************************************************************)
(* Repeated delivery, one invocation after the other: the ground truth and *)
(* the chat summaries are given, the create event of one message is        *)
(* delivered again and again, each invocation starting after the previous  *)
(* one has returned; nothing else writes.                                  *)
(***************************************************************************)
OtherUid(u) == IF u = UidA THEN UidB ELSE UidA

SecondUserFields(u) ==
    getUpdatedChatroom(OtherUid(u),
        getUserNameOrUsername(UserDoc(OtherUid(u)).name, UserDoc(OtherUid(u)).username),
        UserDoc(OtherUid(u)).userPicUrl)

\* The chat summaries of u the updaters can have left behind: the second
\* user's fields, a last message, and newMessageCount if a receiver-side
\* transaction ever wrote one.
ChatroomsOf(u) ==
    LET withLast == {updateChatroomLastMessage(SecondUserFields(u), MessageTexts[1], ts) :
                        ts \in 1..MaxTimestamp}
    IN  withLast \cup
        {MergeFields(c, [newMessageCount |-> n]) : c \in withLast, n \in 0..MaxMessages}

InitTwice ==
    /\ users = [u \in Uids |-> UserDoc(u)]
    /\ \E n \in 1..MaxMessages :
        messages \in {m \in [1..n -> [sender_uid : Uids, receiver_uid : Uids,
                                     message_text : {"t1", "t2", "t3"},
                                     timestamp : 1..MaxTimestamp,
                                     isRead : BOOLEAN]] :
                        \A i \in 1..n : /\ m[i].sender_uid # m[i].receiver_uid
                                        /\ m[i].message_text = MessageTexts[i]}
    /\ \E D \in SUBSET Uids :
        userChatrooms \in
            {c \in [{ChatroomRefOf(u) : u \in D} -> UNION {ChatroomsOf(u) : u \in Uids}] :
                \A u \in D : c[ChatroomRefOf(u)] \in ChatroomsOf(u)}
    /\ updateEvents = {}
    /\ invocation = [h \in Invocations |-> NoInvocation]
    /\ senderTx = [h \in Invocations |-> TxIdle]
    /\ receiverTx = [h \in Invocations |-> TxIdle]
    /\ updateTx = [h \in Invocations |-> TxIdle]
    /\ RatingIdle
    /\ CascadeIdle

NextTwice ==
    \/ \E h \in Invocations, i \in 1..MaxMessages :
        /\ AllTxFinished
        /\ h > 1 => invocation[1].message = i
        /\ onNewChatMessage(h, i)
    \/ \E h \in Invocations :
        \/ SenderGet(h) \/ SenderCommit(h)
        \/ ReceiverGet(h) \/ ReceiverQuery(h) \/ ReceiverCommit(h)

SpecTwice == InitTwice /\ [][NextTwice]_vars

\* C4: the second application of a create updater with the same message (no
\* change of the ground truth nor of the copy in between) issues no write.
C4_SecondApplicationIsNoOp ==
    \A h \in Invocations :
        (h > 1 /\ invocation[h].kind = "create")
            => /\ senderTx[h].pc = "done" => ~senderTx[h].wrote
               /\ receiverTx[h].pc = "done" => ~receiverTx[h].wrote

(***************************************************************************)
(* recalculateOfferRatings                                                 *)
(***************************************************************************)
RECURSIVE Gcd(_, _)
Gcd(a, b) == IF b = 0 THEN a ELSE Gcd(b, a % b)

\* The JavaScript number a / b (b > 0), held as the fraction in lowest terms:
\* two quotients are the same number iff their lowest terms are equal.
Divide(a, b) == [num |-> a \div Gcd(a, b), den |-> b \div Gcd(a, b)]

RECURSIVE SumRatings(_)
\* ratingSum after snapshot.forEach
SumRatings(snapshot) ==
    IF snapshot = <<>> THEN 0
    ELSE Head(snapshot).rating + SumRatings(Tail(snapshot))

\* A search that finds no item.
findNone(offerRatings, offerUid) == -1

\* offerRatings.findIndex(item => item.offer_uid === offerUid), from 0; -1 if none
findIndex(offerRatings, offerUid) ==
    IF \E i \in DOMAIN offerRatings : offerRatings[i].offer_uid = offerUid
    THEN (CHOOSE i \in DOMAIN offerRatings :
            /\ offerRatings[i].offer_uid = offerUid
            /\ \A j \in 1..(i - 1) : offerRatings[j].offer_uid # offerUid) - 1
    ELSE -1

\* Variants of the helpers below that the properties must tell from them.
spliceToEnd(offerRatings, index) == SubSeq(offerRatings, 1, index)
spliceBefore(offerRatings, index) ==
    [i \in 1..(Len(offerRatings) - 1) |->
        IF i < index THEN offerRatings[i] ELSE offerRatings[i + 1]]
averageTruncated(snapshot) == Divide(SumRatings(snapshot) \div Len(snapshot), 1)

\* offerRatings.splice(index, 1), index counted from 0
spliceOne(offerRatings, index) ==
    [i \in 1..(Len(offerRatings) - 1) |->
        IF i <= index THEN offerRatings[i] ELSE offerRatings[i + 1]]

\* averageRating = ratingSum / newReviewCount
averageRating(snapshot) == Divide(SumRatings(snapshot), Len(snapshot))

\* The fields both branches assign from the reviews read.
RatingFields(snapshot) ==
    LET latestReview == snapshot[1]
    IN  [offer_rating |-> averageRating(snapshot),
         offer_review_count |-> Len(snapshot),
         offer_last_review_author_name |-> StrField(latestReview, "authorName"),
         offer_last_review_author_pic |-> StrField(latestReview, "authorUserPicUrl"),
         offer_last_review_text |-> StrField(latestReview, "text"),
         offer_last_review_timestamp |-> NumField(latestReview, "timestamp")]

recalculateOfferRatings(snapshot, providerUser, offerUid) ==
    LET offerRatings == IF "offerRatingList" \in DOMAIN providerUser
                        THEN providerUser.offerRatingList
                        ELSE <<>>
        index == findIndex(offerRatings, offerUid)
        found == index >= 0 /\ index < Len(offerRatings)
    IN  IF snapshot = <<>>
        THEN IF found THEN spliceOne(offerRatings, index) ELSE offerRatings
        ELSE IF found
             THEN [offerRatings EXCEPT
                    ![index + 1] = MergeFields(@, RatingFields(snapshot))]
             ELSE Append(offerRatings,
                    MergeFields([offer_uid |-> offerUid], RatingFields(snapshot)))

(***************************************************************************)
(* recalculateOfferRatings as a function: the arguments are drawn from the *)
(* values its callers pass, the action calls it once.                      *)
(***************************************************************************)
OfferX == <<120>>
OfferY == <<121>>
OfferZ == <<122>>
OfferUids == {OfferX, OfferY, OfferZ}

ReviewBy(authorName, rating, timestamp) ==
    [authorName |-> authorName,
     authorUserPicUrl |-> IF authorName = "Ann" THEN "pic_a" ELSE "",
     text |-> IF authorName = "Ann" THEN "fine" ELSE "poor",
     rating |-> rating,
     timestamp |-> timestamp]

ReviewDocs ==
    {ReviewBy(n, r, ts) : n \in {"Ann", "Bob"}, r \in 1..MaxRating, ts \in 1..MaxTimestamp}

\* What getOfferReviewsPromise can return: newest first.
Snapshots ==
    UNION {{sn \in [1..n -> ReviewDocs] :
                \A i \in 1..(n - 1) : sn[i].timestamp >= sn[i + 1].timestamp} :
           n \in 0..MaxReviews}

\* Entries earlier recalculations have left in a list: one review of the
\* lowest rating, or MaxReviews reviews of the highest.
StoredEntries(o) ==
    {MergeFields([offer_uid |-> o], RatingFields(sn)) :
        sn \in {<<ReviewBy("Ann", 1, 1)>>,
                [i \in 1..MaxReviews |-> ReviewBy("Bob", MaxRating, MaxTimestamp)]}}

\* Lists with at most one entry per offer.
OfferRatingLists ==
    UNION {{l \in [1..n -> UNION {StoredEntries(o) : o \in OfferUids}] :
                \A i, j \in 1..n : i # j => l[i].offer_uid # l[j].offer_uid} :
           n \in 0..Cardinality(OfferUids)}

ProviderUsers ==
    {UserDoc(UidA)} \cup
    {MergeFields(UserDoc(UidA), [offerRatingList |-> l]) : l \in OfferRatingLists}

InitRecalculate ==
    /\ users = [u \in Uids |-> UserDoc(u)]
    /\ invocation = [h \in Invocations |-> NoInvocation]
    /\ ChatIdle
    /\ reviews = NoObject
    /\ reviewEvents = <<>>
    /\ ratingTx = [h \in Invocations |-> TxIdle]
    /\ recalculation \in [snapshot : Snapshots, providerUser : ProviderUsers,
                          offerUid : OfferUids, result : {<<>>}]
    /\ keys = <<>>
    /\ handler = NoHandler
    /\ CascadeIdle

Recalculate ==
    /\ recalculation.result = <<>>
    /\ recalculation' = [recalculation EXCEPT !.result =
            <<recalculateOfferRatings(recalculation.snapshot,
                    recalculation.providerUser, recalculation.offerUid)>>]
    /\ UNCHANGED <<users, invocation, messages, userChatrooms, updateEvents,
                   senderTx, receiverTx, updateTx, reviews, reviewEvents, ratingTx,
                   keys, handler, cascadeVars>>

NextRecalculate == Recalculate

SpecRecalculate == InitRecalculate /\ [][NextRecalculate]_vars

\* The list passed in (undefined read as the empty list) and the list returned.
ListBefore ==
    IF "offerRatingList" \in DOMAIN recalculation.providerUser
    THEN recalculation.providerUser.offerRatingList
    ELSE <<>>
ListAfter == recalculation.result[1]
Recalculated == recalculation.result # <<>>

EntriesOf(list, o) == {i \in DOMAIN list : list[i].offer_uid = o}

\* C6: for a non-empty review set R the returned list has an entry for the
\* offer, with offer_review_count = |R| and offer_rating = sum(R) / |R|.
C6_CountAndAverage ==
    (Recalculated /\ recalculation.snapshot # <<>>)
        => /\ EntriesOf(ListAfter, recalculation.offerUid) # {}
           /\ \A i \in EntriesOf(ListAfter, recalculation.offerUid) :
                /\ ListAfter[i].offer_review_count = Len(recalculation.snapshot)
                /\ ListAfter[i].offer_rating.num * Len(recalculation.snapshot)
                      = SumRatings(recalculation.snapshot) * ListAfter[i].offer_rating.den

\* The case of C6: the entry existed with another count and another rating,
\* and the new average is not a whole number.
C6_Witness ==
    /\ Recalculated /\ recalculation.snapshot # <<>>
    /\ \E i \in EntriesOf(ListBefore, recalculation.offerUid) :
        /\ ListBefore[i].offer_review_count # Len(recalculation.snapshot)
        /\ ListBefore[i].offer_rating # averageRating(recalculation.snapshot)
    /\ averageRating(recalculation.snapshot).den # 1

IsOther(e) == e.offer_uid # recalculation.offerUid

\* C7: for an empty review set the offer's entry is removed if present and
\* nothing else changes; without an entry the list is returned as it was.
C7_EmptySetRemovesEntry ==
    (Recalculated /\ recalculation.snapshot = <<>>)
        => /\ EntriesOf(ListAfter, recalculation.offerUid) = {}
           /\ ListAfter = SelectSeq(ListBefore, IsOther)

\* The case of C7: the entry is present, with entries before and after it.
C7_Witness ==
    /\ Recalculated /\ recalculation.snapshot = <<>>
    /\ Len(ListBefore) = 3
    /\ ListBefore[2].offer_uid = recalculation.offerUid

\* C8: the entries of the other offers keep their content and their order.
C8_OtherEntriesUntouched ==
    Recalculated => SelectSeq(ListAfter, IsOther) = SelectSeq(ListBefore, IsOther)

\* The case of C8: the entry is replaced in place between two others.
C8_Witness ==
    /\ Recalculated /\ recalculation.snapshot # <<>>
    /\ Len(ListBefore) = 3 /\ Len(ListAfter) = 3
    /\ ListBefore[2].offer_uid = recalculation.offerUid
    /\ ListAfter[2] # ListBefore[2]

(***************************************************************************)
(* The rating specification: clients write reviews of the offers of UidA   *)
(* and call recalculateRating after each write.                            *)
(***************************************************************************)
\* The id of the n-th review document created: "1", "2", ...
ReviewUid(n) == <<48 + n>>

\* reviews/${userUid}_${offerUid}
OfferReviewsDocument(userUid, offerUid) == userUid \o Underscore \o offerUid

RatedOffers == {OfferX, OfferY}

ReviewsOfOffer(offerReviewsDocument) ==
    {id \in DOMAIN reviews : id[1] = offerReviewsDocument}

\* The order turned round: the oldest document first.
OldestOf(ids) ==
    CHOOSE i \in ids : \A j \in ids :
        \/ j = i
        \/ reviews[i].timestamp < reviews[j].timestamp
        \/ reviews[i].timestamp = reviews[j].timestamp /\ StrLess(i[2], j[2])

\* orderBy('timestamp', 'desc'): the document that comes first; documents of
\* one timestamp come in descending order of their names.
FirstOf(ids) ==
    CHOOSE i \in ids : \A j \in ids :
        \/ j = i
        \/ reviews[i].timestamp > reviews[j].timestamp
        \/ reviews[i].timestamp = reviews[j].timestamp /\ StrLess(j[2], i[2])

RECURSIVE OrderedDocs(_)
OrderedDocs(ids) ==
    IF ids = {} THEN <<>>
    ELSE <<reviews[FirstOf(ids)]>> \o OrderedDocs(ids \ {FirstOf(ids)})

getOfferReviewsPromise(offerReviewsDocument) ==
    OrderedDocs(ReviewsOfOffer(offerReviewsDocument))

CallData(offerUid) ==
    [providerUserUid |-> UidA, offerUid |-> offerUid,
     offerReviewsDocumentUid |-> OfferReviewsDocument(UidA, offerUid)]

\* The number of reviews created so far.
Created == Cardinality({i \in DOMAIN reviewEvents : reviewEvents[i].kind = "create"})

\* A client creates a review of an offer of UidA.  A write of a review is
\* recorded with the data a call or a trigger takes from it: `call` from the
\* changed review, and of the versions before and after (<<>> for a version
\* that does not exist) the fields onWriteReview compares when both exist.
CreateReview(offerUid, authorName, rating, timestamp) ==
    /\ Created < MaxReviews
    /\ LET id == <<OfferReviewsDocument(UidA, offerUid), ReviewUid(Created + 1)>>
       IN  /\ reviews' = [k \in DOMAIN reviews \cup {id} |->
                            IF k = id
                            THEN MergeFields(ReviewBy(authorName, rating, timestamp),
                                    [providerUserUid |-> UidA, offerUid |-> offerUid])
                            ELSE reviews[k]]
           /\ reviewEvents' = Append(reviewEvents,
                    [kind |-> "create", review |-> id, call |-> CallData(offerUid),
                     before |-> <<>>, after |-> <<NoObject>>])
    /\ UNCHANGED <<users, invocation, ratingTx, recalculation, keys, handler>>
    /\ UNCHANGED <<messages, userChatrooms, updateEvents, senderTx, receiverTx,
                   updateTx, cascadeVars>>

\* A client deletes a review.
DeleteReview(id) ==
    /\ id \in DOMAIN reviews
    /\ reviews' = [k \in DOMAIN reviews \ {id} |-> reviews[k]]
    /\ reviewEvents' = Append(reviewEvents,
            [kind |-> "delete", review |-> id, call |-> CallData(reviews[id].offerUid),
             before |-> <<NoObject>>, after |-> <<>>])
    /\ UNCHANGED <<users, invocation, ratingTx, recalculation, keys, handler>>
    /\ UNCHANGED <<messages, userChatrooms, updateEvents, senderTx, receiverTx,
                   updateTx, cascadeVars>>

(***************************************************************************)
(* exports.recalculateRating                                               *)
(***************************************************************************)
recalculateRating(h, e, auth) ==
    /\ NextInvocation(h)
    /\ e \in DOMAIN reviewEvents
    /\ IF ~auth
       THEN \* throw new functions.https.HttpsError('failed-precondition', ...)
            /\ invocation' = [invocation EXCEPT
                    ![h] = [NoInvocation EXCEPT !.kind = "rejected"]]
            /\ UNCHANGED ratingTx
       ELSE /\ invocation' = [invocation EXCEPT
                    ![h] = [NoInvocation EXCEPT !.kind = "rating", !.message = e]]
            /\ ratingTx' = [ratingTx EXCEPT ![h] = TxStart(NoObject)]
    /\ UNCHANGED <<users, reviews, reviewEvents, recalculation, keys, handler>>
    /\ UNCHANGED <<messages, userChatrooms, updateEvents, senderTx, receiverTx,
                   updateTx, cascadeVars>>

\* data of the call of invocation h, of recalculateRating or deleteOfferData
RatingData(h) == reviewEvents[invocation[h].message].call

providerUserRef(h) == RatingData(h).providerUserUid

ProviderRefs ==
    [h \in Invocations |->
        IF invocation[h].kind \in {"rating", "deleteOffer"}
        THEN providerUserRef(h) ELSE <<>>]

\* transaction.get(providerUserRef)
RatingGet(h) ==
    /\ invocation[h].kind = "rating"
    /\ ratingTx[h].pc = "get"
    /\ ratingTx' = [ratingTx EXCEPT
            ![h].pc = "query",
            ![h].snap = DocData(users, providerUserRef(h))]
    /\ UNCHANGED <<users, invocation, reviews, reviewEvents, recalculation, keys, handler>>
    /\ UNCHANGED <<messages, userChatrooms, updateEvents, senderTx, receiverTx,
                   updateTx, cascadeVars>>

\* getOfferReviewsPromise and the second .then: recalculateOfferRatings reads
\* providerUser.offerRatingList and throws when providerUser is undefined.
RatingQuery(h) ==
    /\ invocation[h].kind = "rating"
    /\ ratingTx[h].pc = "query"
    /\ LET data == RatingData(h)
           snapshot == getOfferReviewsPromise(data.offerReviewsDocumentUid)
       IN  IF ratingTx[h].snap = <<>>
           THEN ratingTx' = [ratingTx EXCEPT ![h] = TxEnd("threw", FALSE)]
           ELSE ratingTx' = [ratingTx EXCEPT
                    ![h].pc = "commit",
                    ![h].snap = <<>>,
                    ![h].write = <<"update",
                        [offerRatingList |->
                            recalculateOfferRatings(snapshot, ratingTx[h].snap[1],
                                                    data.offerUid)]>>]
    /\ UNCHANGED <<users, invocation, reviews, reviewEvents, recalculation, keys, handler>>
    /\ UNCHANGED <<messages, userChatrooms, updateEvents, senderTx, receiverTx,
                   updateTx, cascadeVars>>

\* A commit that does not fail the attempts that read the document.
CommitRatingUnchecked(h, id, write) ==
    /\ users' = ApplyWrite(users, id, write)
    /\ ratingTx' = [ratingTx EXCEPT
            ![h] = [TxEnd("done", TRUE) EXCEPT !.attempts = ratingTx[h].attempts]]

\* The committed write; `attempts` stays, the number of reruns it took.
CommitRating(h, id, write) ==
    /\ users' = ApplyWrite(users, id, write)
    /\ ratingTx' = [MarkConflicts(ratingTx, ProviderRefs, {id}) EXCEPT
            ![h] = [TxEnd("done", TRUE) EXCEPT !.attempts = ratingTx[h].attempts]]

\* The commit: every attempt that gets here has buffered an update.
RatingCommit(h) ==
    /\ invocation[h].kind = "rating"
    /\ ratingTx[h].pc = "commit"
    /\ IF ratingTx[h].conflict
       THEN /\ ratingTx' = [ratingTx EXCEPT ![h] = TxRetry(ratingTx[h])]
            /\ UNCHANGED users
       ELSE CommitRating(h, providerUserRef(h), ratingTx[h].write)
    /\ UNCHANGED <<invocation, reviews, reviewEvents, recalculation, keys, handler>>
    /\ UNCHANGED <<messages, userChatrooms, updateEvents, senderTx, receiverTx,
                   updateTx, cascadeVars>>

InitRating ==
    /\ users = [u \in Uids |-> UserDoc(u)]
    /\ invocation = [h \in Invocations |-> NoInvocation]
    /\ ChatIdle
    /\ RatingIdle
    /\ CascadeIdle

NextRating ==
    \/ \E o \in RatedOffers, n \in {"Ann", "Bob"}, r \in 1..MaxRating,
          ts \in 1..MaxTimestamp : CreateReview(o, n, r, ts)
    \/ \E id \in DOMAIN reviews : DeleteReview(id)
    \/ \E h \in Invocations : \E e \in DOMAIN reviewEvents : \E auth \in BOOLEAN :
            recalculateRating(h, e, auth)
    \/ \E h \in Invocations : RatingGet(h)
    \/ \E h \in Invocations : RatingQuery(h)
    \/ \E h \in Invocations : RatingCommit(h)

SpecRating == InitRating /\ [][NextRating]_vars

\* Every review write was followed by a call whose transaction committed,
\* and no transaction is in flight.
RatingSettled ==
    /\ \A h \in Invocations : TxFinished(ratingTx[h])
    /\ \A e \in DOMAIN reviewEvents : \E h \in Invocations :
            /\ invocation[h].kind = "rating" /\ invocation[h].message = e
            /\ ratingTx[h].pc = "done"

StoredOfferRatings ==
    IF "offerRatingList" \in DOMAIN users[UidA] THEN users[UidA].offerRatingList ELSE <<>>

\* C9: reviews of one offer posted concurrently, a recalculation for each:
\* once the transactions have settled the offer's entry counts every review
\* there is and its rating is their mean (two reviews: count 2, the mean of both).
C9_ConcurrentReviewsCounted ==
    RatingSettled =>
        \A o \in RatedOffers :
            LET snapshot == getOfferReviewsPromise(OfferReviewsDocument(UidA, o))
                entries == EntriesOf(StoredOfferRatings, o)
            IN  snapshot # <<>> =>
                    /\ Cardinality(entries) = 1
                    /\ \A i \in entries :
                        /\ StoredOfferRatings[i].offer_review_count = Len(snapshot)
                        /\ StoredOfferRatings[i].offer_rating.num * Len(snapshot)
                              = SumRatings(snapshot) * StoredOfferRatings[i].offer_rating.den

\* The case of C9: two reviews of OfferX with different ratings, the call
\* for one of them rerun after the other's commit.
C9_Witness ==
    /\ RatingSettled
    /\ Len(reviewEvents) = 2
    /\ \A e \in DOMAIN reviewEvents :
            reviewEvents[e].kind = "create" /\ reviewEvents[e].call.offerUid = OfferX
    /\ \E i, j \in DOMAIN reviews : reviews[i].rating # reviews[j].rating
    /\ \E h \in Invocations : ratingTx[h].attempts > 0
    /\ \E i \in EntriesOf(StoredOfferRatings, OfferX) :
            StoredOfferRatings[i].offer_review_count = 2

(***************************************************************************)
(* The cascade: onUserDelete, onUserDocumentDelete, deleteCollection.      *)
(*                                                                         *)
(* cascade.branch maps each deleteCollection promise of the invocation to  *)
(*   pc    "query" | "commit" | "resolved" | "rejected"                    *)
(*   docs  the snapshot the batch is built from                            *)
(* A promise's .then callbacks run before any other event is handled, so   *)
(* what follows a resolution belongs to the step that resolves.            *)
(***************************************************************************)
FavoritesBranch == <<"favorites", 0>>
ChatroomsBranch == <<"chatrooms", 0>>

OfferList(user) == IF "offerList" \in DOMAIN user THEN user.offerList ELSE <<>>

Branches(user) ==
    {FavoritesBranch, ChatroomsBranch} \cup
    {<<"offer", i>> : i \in DOMAIN OfferList(user)}

\* deleteCollection's collectionPath, as the documents found under it
CollectionDocs(b) ==
    IF b = FavoritesBranch
    THEN {k \in userFavorites : k[1] = cascade.userUid}
    ELSE IF b = ChatroomsBranch
    THEN {k \in DOMAIN userChatrooms : k[1] = cascade.userUid}
    ELSE {k \in DOMAIN reviews : k[1] = OfferReviewsDocument(cascade.userUid,
                                    cascade.deletedUser.offerList[b[2]].offer_uid)}

\* The query without its limit.
QueryAll(docs, batchSize) == docs

\* collectionRef.orderBy('__name__').limit(batchSize)
QueryLimit(docs, batchSize) ==
    {k \in docs : Cardinality({j \in docs : StrLess(j[2], k[2])}) < batchSize}

\* bucket.file(`${userUid}/${photoFolderName}/${photoUid}.jpg`)
PhotoFiles(userUid, photoList, photoFolderName) ==
    {<<userUid, photoFolderName, photoList[i].photoUid>> : i \in DOMAIN photoList}

deletePhotos(files, userUid, holder, field, photoFolderName) ==
    IF field \in DOMAIN holder
    THEN files \ PhotoFiles(userUid, holder[field], photoFolderName)
    ELSE files

deleteOfferPhotos(files, userUid, offer) ==
    deletePhotos(files, userUid, offer, "offer_photo_list", "offer_photos")

deleteUserPhotos(files, userUid, user) ==
    deletePhotos(files, userUid, user, "photoList", "user_photos")

deleteUserPic(files, userUid, user) ==
    IF StrField(user, "userPicUrl") # UndefinedStr /\ StrField(user, "userPicUrl") # ""
    THEN files \ {<<userUid, "userpic", <<>> >>}
    ELSE files

\* exports.onUserDelete: the user document is deleted, the store raises onDelete
onUserDelete(u) ==
    /\ cascade.pc = "none"
    /\ u \in DOMAIN users
    /\ users' = [k \in DOMAIN users \ {u} |-> users[k]]
    /\ cascade' = [NoCascade EXCEPT
            !.pc = "deleted", !.userUid = u, !.deletedUser = users[u]]
    /\ UNCHANGED <<messages, userChatrooms, updateEvents, invocation,
                   senderTx, receiverTx, updateTx, ratingVars,
                   userFavorites, online, bucket, chatroomDeletes>>

\* exports.onUserDocumentDelete up to Promise.all: every deleteCollection
\* has issued its first query.
onUserDocumentDelete ==
    /\ cascade.pc = "deleted"
    /\ cascade' = [cascade EXCEPT
            !.pc = "running",
            !.branch = [b \in Branches(cascade.deletedUser) |->
                            [pc |-> "query", docs |-> {}]]]
    /\ UNCHANGED <<users, messages, userChatrooms, updateEvents, invocation,
                   senderTx, receiverTx, updateTx, ratingVars,
                   userFavorites, online, bucket, chatroomDeletes>>

\* The clean-up done with the first deletion that is fulfilled, the others
\* not awaited.
CleanUpAtOnce(branch, files) ==
    /\ cascade' = [cascade EXCEPT
            !.pc = IF @ = "running" /\ \A b \in DOMAIN branch : branch[b].pc = "resolved"
                   THEN "done" ELSE @,
            !.branch = branch]
    /\ online' = online \ {cascade.userUid}
    /\ bucket' = deleteUserPhotos(
                    deleteUserPic(files, cascade.userUid, cascade.deletedUser),
                    cascade.userUid, cascade.deletedUser)

\* The .then of Promise.all: all three deletions are fulfilled.
CleanUp(branch, files) ==
    IF cascade.pc = "running" /\ \A b \in DOMAIN branch : branch[b].pc = "resolved"
    THEN /\ cascade' = [cascade EXCEPT !.pc = "done", !.branch = branch]
         /\ online' = online \ {cascade.userUid}
         /\ bucket' = deleteUserPhotos(
                        deleteUserPic(files, cascade.userUid, cascade.deletedUser),
                        cascade.userUid, cascade.deletedUser)
    ELSE /\ cascade' = [cascade EXCEPT !.branch = branch]
         /\ online' = online
         /\ bucket' = files

\* A failure answered by asking again: the deletion goes back to its query.
QueryAgain(b) ==
    cascade' = [cascade EXCEPT !.branch[b] = [pc |-> "query", docs |-> {}]]

\* .catch(reject): Promise.all rejects with the first rejection.
Reject(b) ==
    cascade' = [cascade EXCEPT
        !.pc = IF @ = "running" THEN "rejected" ELSE @,
        !.branch[b] = [pc |-> "rejected", docs |-> {}]]

\* deleteQueryBatch: query.get() and the two .then that follow it when the
\* snapshot is empty; with documents, batch.commit() is issued.
deleteQueryBatch(b, ok) ==
    /\ cascade.pc \in {"running", "rejected"}
    /\ b \in DOMAIN cascade.branch
    /\ cascade.branch[b].pc = "query"
    /\ LET snapshot == QueryLimit(CollectionDocs(b), deleteCollectionBatchSize)
       IN  IF ~ok
           THEN Reject(b) /\ UNCHANGED <<online, bucket>>
           ELSE IF snapshot = {}
           THEN CleanUp([cascade.branch EXCEPT ![b].pc = "resolved"],
                    IF b[1] = "offer"
                    THEN deleteOfferPhotos(bucket, cascade.userUid,
                            cascade.deletedUser.offerList[b[2]])
                    ELSE bucket)
           ELSE /\ cascade' = [cascade EXCEPT
                        !.branch[b] = [pc |-> "commit", docs |-> snapshot]]
                /\ UNCHANGED <<online, bucket>>
    /\ UNCHANGED <<users, messages, userChatrooms, updateEvents, invocation,
                   senderTx, receiverTx, updateTx, ratingVars, userFavorites,
                   chatroomDeletes>>

\* A batch shorter than the batch size taken as the last one.
AfterShortBatch(numDeleted) ==
    IF numDeleted < deleteCollectionBatchSize THEN "resolved" ELSE "query"

\* The second .then of deleteQueryBatch: resolve() when numDeleted is 0,
\* else deleteQueryBatch again on the next tick.
AfterBatch(numDeleted) == IF numDeleted = 0 THEN "resolved" ELSE "query"

\* The store raises onDelete for every chat summary deleted; the event
\* carries the document as it was.
RaiseChatroomDeletes(docs) ==
    [k \in DOMAIN chatroomDeletes \cup (docs \cap DOMAIN userChatrooms) |->
        IF k \in docs \cap DOMAIN userChatrooms
        THEN [pc |-> "raised", deletedChatroom |-> userChatrooms[k], docs |-> {}]
        ELSE chatroomDeletes[k]]

\* getCommitBatchPromise: batch.commit() deletes the documents of the
\* snapshot and numDeleted is snapshot.size, which is not 0 here.
getCommitBatchPromise(b, ok) ==
    /\ cascade.pc \in {"running", "rejected"}
    /\ b \in DOMAIN cascade.branch
    /\ cascade.branch[b].pc = "commit"
    /\ LET docs == cascade.branch[b].docs
       IN  IF ~ok
           THEN /\ Reject(b)
                /\ UNCHANGED <<userFavorites, userChatrooms, reviews,
                               senderTx, receiverTx, updateTx, chatroomDeletes>>
           ELSE /\ cascade' = [cascade EXCEPT
                        !.branch[b] = [pc |-> AfterBatch(Cardinality(docs)),
                                       docs |-> {}]]
                /\ userFavorites' = IF b = FavoritesBranch
                                     THEN userFavorites \ docs ELSE userFavorites
                /\ userChatrooms' = IF b = ChatroomsBranch
                                     THEN [k \in DOMAIN userChatrooms \ docs |->
                                                userChatrooms[k]]
                                     ELSE userChatrooms
                /\ reviews' = IF b[1] = "offer"
                               THEN [k \in DOMAIN reviews \ docs |-> reviews[k]]
                               ELSE reviews
                /\ senderTx' = MarkConflicts(senderTx, SenderRefs, docs)
                /\ receiverTx' = MarkConflicts(receiverTx, ReceiverRefs, docs)
                /\ updateTx' = MarkConflicts(updateTx, ReceiverRefs, docs)
                /\ chatroomDeletes' = IF b = ChatroomsBranch
                                       THEN RaiseChatroomDeletes(docs)
                                       ELSE chatroomDeletes
    /\ UNCHANGED <<users, messages, updateEvents, invocation,
                   reviewEvents, ratingTx, recalculation, keys, handler, online, bucket>>

(***************************************************************************)
(* The cascade specification: UidA owns favorites, chat summaries with     *)
(* users outside the model, offers with reviews, and files; one message    *)
(* between UidA and UidB waits for its handler; either user is deleted.    *)
(***************************************************************************)
FavoriteUid(n) == <<102 + n>>
Counterpart(n) == <<98 + n>>
OfferUidOf(i) == <<119 + i>>
PhotoUid(i) == <<111 + i>>

\* Every second offer has photos.
OfferOf(i) ==
    IF i % 2 = 1
    THEN [offer_uid |-> OfferUidOf(i), offer_photo_list |-> <<[photoUid |-> PhotoUid(i)]>>]
    ELSE [offer_uid |-> OfferUidOf(i)]

\* What a user document holds beside the name fields: nothing, or offers
\* and a photo.
OwnerFields ==
    {NoObject} \cup
    {[offerList |-> [i \in 1..n |-> OfferOf(i)],
      photoList |-> <<[photoUid |-> PhotoUid(0)]>>] : n \in 1..MaxOffers}

CounterpartChatroom(n) ==
    updateChatroomLastMessage(getUpdatedChatroom(Counterpart(n), "Cy", ""), "t0", 1)

FilesOf(userUid, user) ==
    (IF StrField(user, "userPicUrl") \notin {UndefinedStr, ""}
     THEN {<<userUid, "userpic", <<>> >>} ELSE {})
    \cup (IF "photoList" \in DOMAIN user
          THEN PhotoFiles(userUid, user.photoList, "user_photos") ELSE {})
    \cup UNION {IF "offer_photo_list" \in DOMAIN OfferList(user)[i]
                THEN PhotoFiles(userUid, OfferList(user)[i].offer_photo_list, "offer_photos")
                ELSE {} : i \in DOMAIN OfferList(user)}

InitCascade ==
    /\ \E fields \in OwnerFields :
        /\ users = [u \in Uids |->
                        IF u = UidA THEN MergeFields(UserDoc(u), fields) ELSE UserDoc(u)]
        \* the first offer has any number of reviews, each next offer one more
        /\ \E first \in 0..MaxDocs :
            reviews = [k \in UNION {{<<OfferReviewsDocument(UidA, OfferUidOf(i)), ReviewUid(n)>> :
                                        n \in 1..((first + i - 1) % (MaxDocs + 1))} :
                                    i \in DOMAIN OfferList(fields)}
                        |-> ReviewBy("Bob", 1, 1)]
        /\ bucket = FilesOf(UidA, MergeFields(UserDoc(UidA), fields))
    /\ \E s \in Uids :
        messages = <<[sender_uid |-> s, receiver_uid |-> OtherUid(s),
                      message_text |-> MessageTexts[1], timestamp |-> 1,
                      isRead |-> FALSE]>>
    /\ \E n \in 0..MaxDocs :
        userChatrooms = [k \in {<<UidA, getChatroomUid(UidA, Counterpart(i))>> : i \in 1..n}
                            |-> CounterpartChatroom(
                                    CHOOSE i \in 1..n :
                                        k[2] = getChatroomUid(UidA, Counterpart(i)))]
    /\ \E n \in 0..MaxDocs : userFavorites = {<<UidA, FavoriteUid(i)>> : i \in 1..n}
    /\ online = Uids
    /\ cascade = NoCascade
    /\ chatroomDeletes = NoObject
    /\ updateEvents = {}
    /\ invocation = [h \in Invocations |-> NoInvocation]
    /\ senderTx = [h \in Invocations |-> TxIdle]
    /\ receiverTx = [h \in Invocations |-> TxIdle]
    /\ updateTx = [h \in Invocations |-> TxIdle]
    /\ reviewEvents = <<>>
    /\ ratingTx = [h \in Invocations |-> TxIdle]
    /\ recalculation = NoRecalculation
    /\ keys = <<>>
    /\ handler = NoHandler

NextCascade ==
    \/ \E u \in Uids : onUserDelete(u)
    \/ onUserDocumentDelete
    \/ \E b \in DOMAIN cascade.branch, ok \in BOOLEAN : deleteQueryBatch(b, ok)
    \/ \E b \in DOMAIN cascade.branch, ok \in BOOLEAN : getCommitBatchPromise(b, ok)
    \/ onNewChatMessage(1, 1)
    \/ SenderGet(1)
    \/ SenderCommit(1)
    \/ ReceiverGet(1)
    \/ ReceiverQuery(1)
    \/ ReceiverCommit(1)

SpecCascade == InitCascade /\ [][NextCascade]_vars

\* C10: once onUserDocumentDelete has completed (no batch failed), the
\* favorites and the chat summaries of the deleted user and the reviews of
\* each offer of its offerList are all gone.
C10_CascadeLeavesNothing ==
    cascade.pc = "done" =>
        /\ \A k \in userFavorites : k[1] # cascade.userUid
        /\ \A k \in DOMAIN userChatrooms : k[1] # cascade.userUid
        /\ \A i \in DOMAIN OfferList(cascade.deletedUser) : \A k \in DOMAIN reviews :
                k[1] # OfferReviewsDocument(cascade.userUid,
                            OfferList(cascade.deletedUser)[i].offer_uid)

(***************************************************************************)
(* exports.onChatroomOfUserDelete.  chatroomDeletes[k].pc is               *)
(*   "raised"    the event waits for its invocation                        *)
(*   "kept"      the second user exists: return null                       *)
(*   "query" | "commit" | "resolved" | "rejected"                          *)
(*               deleteCollection of chatrooms/{chatroomUid}/messages      *)
(***************************************************************************)
\* chatrooms/${chatroomUid}/messages
MessagesOf(chatroomUid) ==
    {i \in DOMAIN messages :
        getChatroomUid(messages[i].sender_uid, messages[i].receiver_uid) = chatroomUid}

\* A decision that ignores the document read.
DeletesMessagesAlways(docExists) == TRUE

\* if (!doc.exists): delete all chatroom messages
DeletesMessages(docExists) == ~docExists

\* The user removes a chat summary of theirs.
DeleteChatroomOfUser(u) ==
    /\ ChatroomRefOf(u) \in DOMAIN userChatrooms
    /\ ChatroomRefOf(u) \notin DOMAIN chatroomDeletes
    /\ userChatrooms' = [k \in DOMAIN userChatrooms \ {ChatroomRefOf(u)} |-> userChatrooms[k]]
    /\ chatroomDeletes' = RaiseChatroomDeletes({ChatroomRefOf(u)})
    /\ senderTx' = MarkConflicts(senderTx, SenderRefs, {ChatroomRefOf(u)})
    /\ receiverTx' = MarkConflicts(receiverTx, ReceiverRefs, {ChatroomRefOf(u)})
    /\ updateTx' = MarkConflicts(updateTx, ReceiverRefs, {ChatroomRefOf(u)})
    /\ UNCHANGED <<users, messages, updateEvents, invocation, ratingVars,
                   userFavorites, online, bucket, cascade>>

\* The handler up to the .then of the get of the second user.
onChatroomOfUserDelete(k) ==
    /\ k \in DOMAIN chatroomDeletes
    /\ chatroomDeletes[k].pc = "raised"
    /\ LET secondUserUid == chatroomDeletes[k].deletedChatroom.secondUserUid
       IN  chatroomDeletes' = [chatroomDeletes EXCEPT
                ![k].pc = IF DeletesMessages(secondUserUid \in DOMAIN users)
                          THEN "query" ELSE "kept"]
    /\ UNCHANGED <<users, messages, userChatrooms, updateEvents, invocation,
                   senderTx, receiverTx, updateTx, ratingVars,
                   userFavorites, online, bucket, cascade>>

\* deleteQueryBatch of the messages: query.get() and what follows it
deleteMessagesQueryBatch(k, ok) ==
    /\ k \in DOMAIN chatroomDeletes
    /\ chatroomDeletes[k].pc = "query"
    /\ LET snapshot == {i \in MessagesOf(k[2]) :
                Cardinality({j \in MessagesOf(k[2]) : j < i}) < deleteCollectionBatchSize}
       IN  chatroomDeletes' = [chatroomDeletes EXCEPT
                ![k].pc = IF ~ok THEN "rejected"
                          ELSE IF snapshot = {} THEN "resolved" ELSE "commit",
                ![k].docs = IF ok THEN snapshot ELSE {}]
    /\ UNCHANGED <<users, messages, userChatrooms, updateEvents, invocation,
                   senderTx, receiverTx, updateTx, ratingVars,
                   userFavorites, online, bucket, cascade>>

\* getCommitBatchPromise of the messages: batch.commit(), next query
commitMessagesBatch(k, ok) ==
    /\ k \in DOMAIN chatroomDeletes
    /\ chatroomDeletes[k].pc = "commit"
    /\ IF ~ok
       THEN /\ chatroomDeletes' = [chatroomDeletes EXCEPT
                    ![k].pc = "rejected", ![k].docs = {}]
            /\ UNCHANGED messages
       ELSE /\ chatroomDeletes' = [chatroomDeletes EXCEPT
                    ![k].pc = "query", ![k].docs = {}]
            /\ messages' = [i \in DOMAIN messages \ chatroomDeletes[k].docs |-> messages[i]]
    /\ UNCHANGED <<users, userChatrooms, updateEvents, invocation,
                   senderTx, receiverTx, updateTx, ratingVars,
                   userFavorites, online, bucket, cascade>>

(***************************************************************************)
(* The chat-summary deletion specification: any of the two users exist,    *)
(* the relationship has messages and copies; users remove their copy and   *)
(* one user is deleted.                                                    *)
(***************************************************************************)
StoredChatroom(u) == updateChatroomLastMessage(SecondUserFields(u), MessageTexts[1], 1)

InitChatroomDelete ==
    /\ \E D \in SUBSET Uids : users = [u \in D |-> UserDoc(u)]
    /\ \E n \in 0..MaxDocs :
        messages = [i \in 1..n |->
                        [sender_uid |-> IF i % 2 = 1 THEN UidA ELSE UidB,
                         receiver_uid |-> IF i % 2 = 1 THEN UidB ELSE UidA,
                         message_text |-> MessageTexts[i], timestamp |-> 1,
                         isRead |-> FALSE]]
    /\ \E D \in SUBSET Uids :
        userChatrooms = [k \in {ChatroomRefOf(u) : u \in D} |-> StoredChatroom(k[1])]
    /\ updateEvents = {}
    /\ invocation = [h \in Invocations |-> NoInvocation]
    /\ senderTx = [h \in Invocations |-> TxIdle]
    /\ receiverTx = [h \in Invocations |-> TxIdle]
    /\ updateTx = [h \in Invocations |-> TxIdle]
    /\ RatingIdle
    /\ CascadeIdle

NextChatroomDelete ==
    \/ \E u \in Uids : DeleteChatroomOfUser(u)
    \/ \E u \in Uids : onUserDelete(u)
    \/ onUserDocumentDelete
    \/ \E b \in DOMAIN cascade.branch, ok \in BOOLEAN : deleteQueryBatch(b, ok)
    \/ \E b \in DOMAIN cascade.branch, ok \in BOOLEAN : getCommitBatchPromise(b, ok)
    \/ \E k \in DOMAIN chatroomDeletes : onChatroomOfUserDelete(k)
    \/ \E k \in DOMAIN chatroomDeletes, ok \in BOOLEAN : deleteMessagesQueryBatch(k, ok)
    \/ \E k \in DOMAIN chatroomDeletes, ok \in BOOLEAN : commitMessagesBatch(k, ok)

SpecChatroomDelete == InitChatroomDelete /\ [][NextChatroomDelete]_vars

\* C11: the invocation for a deleted chat summary starts deleting the
\* relationship's messages exactly when the second user's record does not
\* exist at its read, and returns without deleting when it exists; a message
\* is deleted only by an invocation that found the record missing, and such
\* an invocation resolves only when no message of the relationship is left.
C11_MessagesDeletedIffCounterpartGone ==
    [][/\ \A k \in DOMAIN chatroomDeletes :
            /\ (chatroomDeletes[k].pc = "raised" /\ chatroomDeletes'[k].pc # "raised")
                => IF chatroomDeletes[k].deletedChatroom.secondUserUid \in DOMAIN users
                   THEN chatroomDeletes'[k].pc = "kept" /\ messages' = messages
                   ELSE chatroomDeletes'[k].pc = "query"
            /\ chatroomDeletes[k].pc = "kept"
                => chatroomDeletes'[k].pc = "kept"
            /\ (chatroomDeletes[k].pc # "resolved" /\ chatroomDeletes'[k].pc = "resolved")
                => MessagesOf(k[2]) = {}
       /\ messages' # messages
            => \E k \in DOMAIN chatroomDeletes :
                    /\ chatroomDeletes[k].pc = "commit"
                    /\ chatroomDeletes[k].docs \subseteq MessagesOf(k[2])
                    /\ DOMAIN messages' = DOMAIN messages \ chatroomDeletes[k].docs
      ]_vars

\* The case of C11: one invocation returned with the second user present,
\* another found the second user missing and has deleted its first batch.
C11_Witness ==
    /\ \E k \in DOMAIN chatroomDeletes : chatroomDeletes[k].pc = "kept"
    /\ \E k \in DOMAIN chatroomDeletes : chatroomDeletes[k].pc = "query"
    /\ 1 \notin DOMAIN messages
    /\ DOMAIN messages # {}

(***************************************************************************)
(* getChatroomUid on its own: two calls with any identifiers.  Identifiers *)
(* are non-empty strings; the alphabet has a code unit below the           *)
(* separator ("A"), the separator itself and one above it ("a").           *)
(***************************************************************************)
UidAlphabet == {65, 95, 97}

Identifiers == UNION {[1..n -> UidAlphabet] : n \in 1..MaxUidLen}

InitChatroomUid ==
    /\ keys \in [1..2 -> [senderUid : Identifiers, receiverUid : Identifiers,
                          result : {<<>>}]]
    /\ users = NoObject
    /\ messages = <<>>
    /\ userChatrooms = NoObject
    /\ invocation = [h \in Invocations |-> NoInvocation]
    /\ ChatIdle
    /\ reviews = NoObject
    /\ reviewEvents = <<>>
    /\ ratingTx = [h \in Invocations |-> TxIdle]
    /\ recalculation = NoRecalculation
    /\ handler = NoHandler
    /\ CascadeIdle

CallGetChatroomUid(i) ==
    /\ keys[i].result = <<>>
    /\ keys' = [keys EXCEPT ![i].result =
                    <<getChatroomUid(keys[i].senderUid, keys[i].receiverUid)>>]
    /\ UNCHANGED <<users, messages, userChatrooms, updateEvents, invocation,
                   senderTx, receiverTx, updateTx, reviews, reviewEvents,
                   ratingTx, recalculation, handler, cascadeVars>>

NextChatroomUid == \E i \in DOMAIN keys : CallGetChatroomUid(i)

SpecChatroomUid == InitChatroomUid /\ [][NextChatroomUid]_vars

BothCalled == \A i \in DOMAIN keys : keys[i].result # <<>>
PairOf(i) == {keys[i].senderUid, keys[i].receiverUid}

\* C12: getChatroomUid is commutative: a call with (a, b) and a call with
\* (b, a) return the same string, for all identifiers a and b.
C12_Commutative ==
    (/\ BothCalled
     /\ keys[1].senderUid = keys[2].receiverUid
     /\ keys[1].receiverUid = keys[2].senderUid)
        => keys[1].result = keys[2].result

\* The case of C12: the two calls swap two different identifiers, one of
\* them a proper prefix of the other and holding the separator.
C12_Witness ==
    /\ BothCalled
    /\ keys[1].senderUid = keys[2].receiverUid
    /\ keys[1].receiverUid = keys[2].senderUid
    /\ keys[1].senderUid = <<65, 95>>
    /\ keys[1].receiverUid = <<65>>

\* C13: getChatroomUid is collision-free: two calls whose unordered pairs
\* of identifiers differ return different strings, also when identifiers
\* hold the separator "_".
C13_CollisionFree ==
    (BothCalled /\ PairOf(1) # PairOf(2)) => keys[1].result # keys[2].result

(***************************************************************************)
(* Redelivery after a partial failure.  runTransaction can reject for an   *)
(* error of the store at any of its requests; the .catch of the updater    *)
(* logs it and resolves null.                                              *)
(***************************************************************************)
SenderReject(h) ==
    /\ senderTx[h].pc \in {"get", "commit"}
    /\ senderTx' = [senderTx EXCEPT ![h] = TxEnd("threw", FALSE)]
    /\ UNCHANGED <<users, messages, userChatrooms, updateEvents, invocation,
                   receiverTx, updateTx, ratingVars, cascadeVars>>

ReceiverReject(h) ==
    /\ receiverTx[h].pc \in {"get", "query", "commit"}
    /\ receiverTx' = [receiverTx EXCEPT ![h] = TxEnd("threw", FALSE)]
    /\ UNCHANGED <<users, messages, userChatrooms, updateEvents, invocation,
                   senderTx, updateTx, ratingVars, cascadeVars>>

UpdateReject(h) ==
    /\ updateTx[h].pc \in {"get", "query", "commit"}
    /\ updateTx' = [updateTx EXCEPT ![h] = TxEnd("threw", FALSE)]
    /\ UNCHANGED <<users, messages, userChatrooms, updateEvents, invocation,
                   senderTx, receiverTx, ratingVars, cascadeVars>>

\* The copies after one delivery of the create event of message i whose two
\* transactions commit at their first attempt, the unread query returning
\* unreadMessageCount documents.
HandledOnce(chatrooms, i, unreadMessageCount) ==
    LET message == messages[i]
        senderRef == ChatroomRefOf(message.sender_uid)
        receiverRef == ChatroomRefOf(message.receiver_uid)
        senderWrite == SenderOnCreateBody(DocData(chatrooms, senderRef),
                            SecondUserFields(message.sender_uid),
                            message.message_text, message.timestamp).write
        receiverWrite == ReceiverOnCreateBody(DocData(chatrooms, receiverRef),
                            SecondUserFields(message.receiver_uid), unreadMessageCount,
                            message.message_text, message.timestamp).write
        afterSender == IF senderWrite = <<>> THEN chatrooms
                       ELSE ApplyWrite(chatrooms, senderRef, senderWrite)
    IN  IF receiverWrite = <<>> THEN afterSender
        ELSE ApplyWrite(afterSender, receiverRef, receiverWrite)

\* The copies before the last message is delivered: none when it is the
\* first message, else those the delivery of the first message left (the
\* first message was read before its delivery, or is unread, or was read
\* since and its update event is still to come).
InitialChatrooms ==
    IF Len(messages) = 1 THEN NoObject
    ELSE HandledOnce(NoObject, 1, IF messages[1].isRead THEN 0 ELSE 1)

InitRedelivery ==
    /\ users = [u \in Uids |-> UserDoc(u)]
    /\ \E n \in 1..MaxMessages :
        messages \in {m \in [1..n -> [sender_uid : Uids, receiver_uid : Uids,
                                     message_text : {"t1", "t2", "t3"},
                                     timestamp : 1..MaxTimestamp,
                                     isRead : BOOLEAN]] :
                        \A i \in 1..n : /\ m[i].sender_uid # m[i].receiver_uid
                                        /\ m[i].message_text = MessageTexts[i]}
    /\ userChatrooms = InitialChatrooms
    /\ updateEvents = {}
    /\ invocation = [h \in Invocations |-> NoInvocation]
    /\ senderTx = [h \in Invocations |-> TxIdle]
    /\ receiverTx = [h \in Invocations |-> TxIdle]
    /\ updateTx = [h \in Invocations |-> TxIdle]
    /\ RatingIdle
    /\ CascadeIdle

\* The create event of the last message is delivered, and delivered again
\* after the invocation before has returned.
NextRedelivery ==
    \/ \E h \in Invocations : AllTxFinished /\ onNewChatMessage(h, Len(messages))
    \/ \E h \in Invocations :
        \/ SenderGet(h) \/ SenderCommit(h) \/ SenderReject(h)
        \/ ReceiverGet(h) \/ ReceiverQuery(h) \/ ReceiverCommit(h) \/ ReceiverReject(h)

SpecRedelivery == InitRedelivery /\ [][NextRedelivery]_vars

TxFailed(tx) == tx.pc \in {"threw", "exhausted"}

\* One transaction of the first invocation failed and the other committed;
\* both transactions of the second invocation committed.
RedeliveredAfterPartialFailure ==
    /\ invocation[1].kind = "create" /\ invocation[2].kind = "create"
    /\ \/ TxFailed(senderTx[1]) /\ receiverTx[1].pc = "done"
       \/ senderTx[1].pc = "done" /\ TxFailed(receiverTx[1])
    /\ senderTx[2].pc = "done" /\ receiverTx[2].pc = "done"

\* C14: when the create event of a message is delivered again after an
\* invocation in which one of the two transactions failed and the other
\* committed, the ground truth unchanged, both copies end as one delivery
\* with both transactions committing would have left them.
C14_RedeliveryConverges ==
    RedeliveredAfterPartialFailure
        => userChatrooms = HandledOnce(InitialChatrooms, Len(messages),
                getReceiverChatroomUnreadMessagesPromise(messages[Len(messages)].receiver_uid))

(***************************************************************************)
(* The notification of onNewChatMessage.  The promise of sendToDevice      *)
(* settles on its own; Promise.all of the handler only waits.              *)
(***************************************************************************)
NotificationSettles(h, ok) ==
    /\ invocation[h].notification = "pending"
    /\ invocation' = [invocation EXCEPT
            ![h].notification = IF ok THEN "sent" ELSE "failed"]
    /\ UNCHANGED <<users, messages, userChatrooms, updateEvents,
                   senderTx, receiverTx, updateTx, ratingVars, cascadeVars>>

\* A user document as the client keeps it: with a token, with an empty
\* one, or without the field.
UserDocs(u) ==
    {UserDoc(u), [UserDoc(u) EXCEPT !.fcm_token = ""],
     [f \in DOMAIN UserDoc(u) \ {"fcm_token"} |-> UserDoc(u)[f]]}

InitNotification ==
    /\ users \in {us \in [Uids -> UNION {UserDocs(u) : u \in Uids}] :
                    \A u \in Uids : us[u] \in UserDocs(u)}
    /\ \E n \in 1..MaxMessages :
        messages \in {m \in [1..n -> [sender_uid : Uids, receiver_uid : Uids,
                                     message_text : {"t1", "t2", "t3"},
                                     timestamp : {1},
                                     isRead : BOOLEAN]] :
                        \A i \in 1..n : /\ m[i].sender_uid # m[i].receiver_uid
                                        /\ m[i].message_text = MessageTexts[i]}
    /\ userChatrooms = InitialChatrooms
    /\ updateEvents = {}
    /\ invocation = [h \in Invocations |-> NoInvocation]
    /\ senderTx = [h \in Invocations |-> TxIdle]
    /\ receiverTx = [h \in Invocations |-> TxIdle]
    /\ updateTx = [h \in Invocations |-> TxIdle]
    /\ RatingIdle
    /\ CascadeIdle

NextNotification ==
    \/ \E h \in Invocations : onNewChatMessage(h, Len(messages))
    \/ \E h \in Invocations, ok \in BOOLEAN : NotificationSettles(h, ok)
    \/ \E h \in Invocations :
        \/ SenderGet(h) \/ SenderCommit(h)
        \/ ReceiverGet(h) \/ ReceiverQuery(h) \/ ReceiverCommit(h)

SpecNotification == InitNotification /\ [][NextNotification]_vars

\* The send of invocation h failed: the call threw or its promise rejected.
SendFailed(h) == invocation[h].notification \in {"threw", "failed"}

\* C15: in onNewChatMessage a failure of the notification send neither
\* prevents nor rolls back the two view transactions: an invocation that
\* has read both user records has started both transactions whatever the
\* send did, and the failure of the send changes no transaction and no copy.
C15_SendFailureLeavesTransactions ==
    [][\A h \in Invocations :
        /\ (invocation[h].kind = "none" /\ invocation'[h].kind # "none")
            => /\ senderTx'[h].pc = "get"
               /\ receiverTx'[h].pc = "get"
        /\ (~SendFailed(h) /\ SendFailed(h)' /\ invocation[h].kind # "none")
            => /\ senderTx' = senderTx
               /\ receiverTx' = receiverTx
               /\ userChatrooms' = userChatrooms
      ]_vars

(***************************************************************************)
(* Transactions that fail: deliveries of create events and of the update   *)
(* events of the messages read run concurrently, the users remove their    *)
(* copies, the store rejects.                                              *)
(***************************************************************************)
InitFailure ==
    /\ users = [u \in Uids |-> UserDoc(u)]
    /\ \E n \in 1..MaxMessages :
        messages \in {m \in [1..n -> [sender_uid : Uids, receiver_uid : Uids,
                                     message_text : {"t1", "t2", "t3"},
                                     timestamp : {1},
                                     isRead : BOOLEAN]] :
                        \A i \in 1..n : /\ m[i].sender_uid # m[i].receiver_uid
                                        /\ m[i].message_text = MessageTexts[i]}
    /\ userChatrooms = InitialChatrooms
    /\ updateEvents = {[message |-> i, before |-> FALSE, after |-> TRUE] :
                            i \in {k \in DOMAIN messages : messages[k].isRead}}
    /\ invocation = [h \in Invocations |-> NoInvocation]
    /\ senderTx = [h \in Invocations |-> TxIdle]
    /\ receiverTx = [h \in Invocations |-> TxIdle]
    /\ updateTx = [h \in Invocations |-> TxIdle]
    /\ RatingIdle
    /\ CascadeIdle

NextFailure ==
    \/ \E u \in Uids : DeleteChatroomOfUser(u)
    \/ \E h \in Invocations, i \in 1..MaxMessages : onNewChatMessage(h, i)
    \/ \E h \in Invocations : \E e \in updateEvents : onUpdateChatMessage(h, e)
    \/ \E h \in Invocations :
        \/ SenderGet(h) \/ SenderCommit(h) \/ SenderReject(h)
        \/ ReceiverGet(h) \/ ReceiverQuery(h) \/ ReceiverCommit(h) \/ ReceiverReject(h)
        \/ UpdateGet(h) \/ UpdateQuery(h) \/ UpdateCommit(h) \/ UpdateReject(h)

SpecFailure == InitFailure /\ [][NextFailure]_vars

\* The step ends with the failure of transaction tx of invocation h: its
\* promise is resolved and the copy it is about is as before the step.
FailsClean(txs, refs, h) ==
    (~TxFailed(txs[h]) /\ TxFailed(txs[h])')
        => /\ txs[h].promise' = "resolved"
           /\ ~txs[h].wrote'
           /\ DocData(userChatrooms, refs[h])' = DocData(userChatrooms, refs[h])

\* C16: each of the three view updaters always resolves and never rejects,
\* and when its transaction fails (attempts used up, an error thrown in the
\* update function, a rejection by the store) no write is applied to the
\* copy it is about.
C16_UpdatersResolveWithoutWrite ==
    [][\A h \in Invocations :
        /\ FailsClean(senderTx, SenderRefs, h)
        /\ FailsClean(receiverTx, ReceiverRefs, h)
        /\ FailsClean(updateTx, ReceiverRefs, h)
        /\ senderTx[h].promise' # "rejected"
        /\ receiverTx[h].promise' # "rejected"
        /\ updateTx[h].promise' # "rejected"
      ]_vars

\* The case of C16: a create transaction has used up its attempts, each
\* of them met by a write of its copy, and the copy it is about exists.
C16_Witness ==
    \E h \in Invocations :
        \/ senderTx[h].pc = "exhausted" /\ SenderRefs[h] \in DOMAIN userChatrooms
        \/ receiverTx[h].pc = "exhausted" /\ ReceiverRefs[h] \in DOMAIN userChatrooms

(***************************************************************************)
(* onUpdateChatMessage with every kind of update of a message document:    *)
(* the client writes the document, isRead changing or not; the store       *)
(* raises onUpdate with the document before and after.                     *)
(***************************************************************************)
UpdateMessage(i, newIsRead) ==
    /\ i \in DOMAIN messages
    /\ updateEvents' = updateEvents \cup
            {[message |-> i, before |-> messages[i].isRead, after |-> newIsRead]}
    /\ messages' = [messages EXCEPT ![i].isRead = newIsRead]
    /\ UNCHANGED <<users, userChatrooms, invocation, senderTx, receiverTx, updateTx,
                   ratingVars, cascadeVars>>

InitUpdate ==
    /\ users = [u \in Uids |-> UserDoc(u)]
    /\ \E n \in 1..MaxMessages :
        messages \in {m \in [1..n -> [sender_uid : Uids, receiver_uid : Uids,
                                     message_text : {"t1", "t2", "t3"},
                                     timestamp : {1},
                                     isRead : BOOLEAN]] :
                        \A i \in 1..n : /\ m[i].sender_uid # m[i].receiver_uid
                                        /\ m[i].message_text = MessageTexts[i]}
    /\ userChatrooms = HandledOnce(NoObject, 1, 1)
    /\ updateEvents = {}
    /\ invocation = [h \in Invocations |-> NoInvocation]
    /\ senderTx = [h \in Invocations |-> TxIdle]
    /\ receiverTx = [h \in Invocations |-> TxIdle]
    /\ updateTx = [h \in Invocations |-> TxIdle]
    /\ RatingIdle
    /\ CascadeIdle

NextUpdate ==
    \/ \E i \in 1..MaxMessages, newIsRead \in BOOLEAN : UpdateMessage(i, newIsRead)
    \/ \E h \in Invocations : \E e \in updateEvents : onUpdateChatMessage(h, e)
    \/ \E h \in Invocations : UpdateGet(h) \/ UpdateQuery(h) \/ UpdateCommit(h)

SpecUpdate == InitUpdate /\ [][NextUpdate]_vars

\* C17: onUpdateChatMessage starts its transaction (the only place where it
\* reads or writes a copy) exactly when isRead is false in the old message
\* and true in the new one; an invocation for any other update never has a
\* transaction, and no copy changes but by the commit of an invocation for
\* a change from false to true.
C17_OnlyMarkedAsReadActs ==
    [][/\ \A h \in Invocations :
            (invocation[h].kind = "update")'
                => IF invocation[h].change' = <<FALSE, TRUE>>
                   THEN updateTx[h].pc' # "idle"
                   ELSE updateTx[h]' = TxIdle
       /\ userChatrooms' # userChatrooms
            => \E h \in Invocations :
                    /\ invocation[h].change = <<FALSE, TRUE>>
                    /\ updateTx[h].pc = "commit"
                    /\ updateTx[h].wrote'
      ]_vars

\* The case of C17: an invocation for an update that left isRead true and
\* one for an update back to unread have returned, a third kind of update
\* (from unread to read) has had its count committed.
C17_Witness ==
    /\ \E h \in Invocations :
            /\ invocation[h].kind = "update"
            /\ invocation[h].change \in {<<TRUE, TRUE>>, <<TRUE, FALSE>>, <<FALSE, FALSE>>}
    /\ \E h \in Invocations :
            /\ invocation[h].change = <<FALSE, TRUE>>
            /\ updateTx[h].wrote

(***************************************************************************)
(* exports.onWriteReview: the trigger on every write of a review document. *)
(* Its transaction is that of recalculateRating, with providerUserUid and  *)
(* offerUid taken from the changed review.                                 *)
(***************************************************************************)
\* The fields of a version that onWriteReview compares.
Compared(review) == [text |-> review.text, rating |-> review.rating]

\* A client updates a field of a review: rating, text or authorName.
UpdateReview(id, field, value) ==
    /\ id \in DOMAIN reviews
    /\ Len(reviewEvents) < MaxReviewWrites
    /\ reviews[id][field] # value
    /\ reviews' = [reviews EXCEPT ![id][field] = value]
    /\ reviewEvents' = Append(reviewEvents,
            [kind |-> "update", review |-> id, call |-> CallData(reviews[id].offerUid),
             before |-> <<Compared(reviews[id])>>, after |-> <<Compared(reviews'[id])>>])
    /\ UNCHANGED <<users, invocation, ratingTx, recalculation, keys, handler>>
    /\ UNCHANGED <<messages, userChatrooms, updateEvents, senderTx, receiverTx,
                   updateTx, cascadeVars>>

\* Every write counts.
isReviewWritten(before, after) == before # <<>> \/ after # <<>>

\* isReviewChanged && changedReview !== undefined; before and after are
\* <<>> when the version does not exist, else <<document>>.
isReviewChanged(before, after) ==
    IF after # <<>> /\ before = <<>> THEN TRUE
    ELSE IF after = <<>> /\ before # <<>> THEN TRUE
    ELSE IF after # <<>> /\ before # <<>>
    THEN \/ StrField(before[1], "text") # StrField(after[1], "text")
         \/ NumField(before[1], "rating") # NumField(after[1], "rating")
    ELSE FALSE

onWriteReview(h, e) ==
    /\ NextInvocation(h)
    /\ e \in DOMAIN reviewEvents
    /\ IF isReviewChanged(reviewEvents[e].before, reviewEvents[e].after)
       THEN /\ invocation' = [invocation EXCEPT
                    ![h] = [NoInvocation EXCEPT !.kind = "rating", !.message = e]]
            /\ ratingTx' = [ratingTx EXCEPT ![h] = TxStart(NoObject)]
       ELSE \* return null
            /\ invocation' = [invocation EXCEPT
                    ![h] = [NoInvocation EXCEPT !.kind = "returned", !.message = e]]
            /\ UNCHANGED ratingTx
    /\ UNCHANGED <<users, reviews, reviewEvents, recalculation, keys, handler>>
    /\ UNCHANGED <<messages, userChatrooms, updateEvents, senderTx, receiverTx,
                   updateTx, cascadeVars>>

NextReview ==
    \/ \E r \in 1..MaxRating : CreateReview(OfferX, "Ann", r, 1)
    \/ \E id \in DOMAIN reviews :
        \/ \E r \in 1..MaxRating : UpdateReview(id, "rating", r)
        \/ \E t \in {"fine", "poor"} : UpdateReview(id, "text", t)
        \/ \E n \in {"Ann", "Bob"} : UpdateReview(id, "authorName", n)
    \/ \E id \in DOMAIN reviews : DeleteReview(id)
    \/ \E h \in Invocations : \E e \in DOMAIN reviewEvents : onWriteReview(h, e)
    \/ \E h \in Invocations : RatingGet(h) \/ RatingQuery(h) \/ RatingCommit(h)

SpecReview == InitRating /\ [][NextReview]_vars

\* The write an invocation of onWriteReview is about.
WriteOf(h) == reviewEvents[invocation[h].message]

\* C18: onWriteReview runs the rating transaction exactly when the review
\* was created, was deleted, or both versions exist and text or rating
\* differ; an invocation for any other update has no transaction, and the
\* provider record changes only by the commit of an invocation that runs it.
C18_RecalculatesIffReviewChanged ==
    [][/\ \A h \in Invocations :
            (invocation[h].kind \in {"rating", "returned"})'
                => IF \/ WriteOf(h).kind' \in {"create", "delete"}
                      \/ WriteOf(h).before' # WriteOf(h).after'
                   THEN invocation[h].kind' = "rating" /\ ratingTx[h].pc' # "idle"
                   ELSE invocation[h].kind' = "returned" /\ ratingTx[h]' = TxIdle
       /\ users' # users
            => \E h \in Invocations :
                    /\ invocation[h].kind = "rating"
                    /\ ratingTx[h].pc = "commit"
                    /\ ratingTx[h].wrote'
      ]_vars

\* The case of C18: an invocation for an update of the author's name alone
\* has returned, and one for an update of the rating or of the text has
\* committed.
C18_Witness ==
    /\ \E h \in Invocations :
            /\ invocation[h].kind = "returned"
            /\ WriteOf(h).kind = "update"
    /\ \E h \in Invocations :
            /\ invocation[h].kind = "rating"
            /\ WriteOf(h).kind = "update"
            /\ ratingTx[h].wrote

(***************************************************************************)
(* exports.onUpdateUserNameAndPic (exports.onUpdateUser before it): the    *)
(* trigger on updates of the document with a user's name, username and     *)
(* picture, and the propagation to the chat summaries of the other users.  *)
(***************************************************************************)
HandlerIdle == handler.pc \in {"none", "returned", "done"}

\* A client updates a field of its user document.
UpdateUser(u, field, value) ==
    /\ HandlerIdle
    /\ u \in DOMAIN users
    /\ StrField(users[u], field) # value
    /\ users' = [users EXCEPT ![u] = MergeFields(users[u], [f \in {field} |-> value])]
    /\ handler' = [NoHandler EXCEPT !.name = "onUpdateUserNameAndPic", !.pc = "raised",
                                    !.userUid = u, !.before = users[u],
                                    !.after = users'[u]]
    /\ ratingTx' = MarkConflicts(ratingTx, ProviderRefs, {u})
    /\ UNCHANGED <<messages, userChatrooms, updateEvents, invocation, senderTx,
                   receiverTx, updateTx, reviews, reviewEvents, recalculation, keys,
                   cascadeVars>>

\* Every field that holds a name or the picture is compared.
isDataChanged(oldData, newData) ==
    \/ StrField(oldData, "name") # StrField(newData, "name")
    \/ StrField(oldData, "username") # StrField(newData, "username")
    \/ StrField(oldData, "userPicUrl") # StrField(newData, "userPicUrl")

\* The else branch of: oldUsername === newUsername && oldUserPicUrl === newUserPicUrl
isNameOrPicChanged(oldData, newData) ==
    LET oldUsername == getUserNameOrUsername(StrField(oldData, "name"),
                                             StrField(oldData, "username"))
        newUsername == getUserNameOrUsername(StrField(newData, "name"),
                                             StrField(newData, "username"))
        oldUserPicUrl == StrField(oldData, "userPicUrl")
        newUserPicUrl == StrField(newData, "userPicUrl")
    IN  ~(oldUsername = newUsername /\ oldUserPicUrl = newUserPicUrl)

onUpdateUserNameAndPic ==
    /\ handler.name = "onUpdateUserNameAndPic"
    /\ handler.pc = "raised"
    /\ handler' = [handler EXCEPT !.pc =
            IF isNameOrPicChanged(handler.before, handler.after)
            THEN "query" ELSE "returned"]
    /\ UNCHANGED <<users, messages, userChatrooms, updateEvents, invocation, senderTx,
                   receiverTx, updateTx, reviews, reviewEvents, ratingTx,
                   recalculation, keys, cascadeVars>>

\* The updates aimed at the documents found, the chat summaries of the user.
UpdateUsernameInOwnChatrooms ==
    /\ handler.name = "onUpdateUserNameAndPic"
    /\ handler.pc = "query"
    /\ LET snapshot == {k \in DOMAIN userChatrooms : k[1] = handler.userUid}
       IN  handler' = [handler EXCEPT
                !.pc = IF snapshot = {} THEN "done" ELSE "update",
                !.pending = snapshot]
    /\ UNCHANGED <<users, messages, userChatrooms, updateEvents, invocation, senderTx,
                   receiverTx, updateTx, reviews, reviewEvents, ratingTx,
                   recalculation, keys, cascadeVars>>

\* The get of the chatrooms of the user; one update per document found, of
\* the chat summary the second user keeps.
getUserChatroomsAndUpdateUsername ==
    /\ handler.name = "onUpdateUserNameAndPic"
    /\ handler.pc = "query"
    /\ LET snapshot == {k \in DOMAIN userChatrooms : k[1] = handler.userUid}
       IN  handler' = [handler EXCEPT
                !.pc = IF snapshot = {} THEN "done" ELSE "update",
                !.pending = {getUserChatroomRef(userChatrooms[k].secondUserUid, k[2]) :
                                k \in snapshot}]
    /\ UNCHANGED <<users, messages, userChatrooms, updateEvents, invocation, senderTx,
                   receiverTx, updateTx, reviews, reviewEvents, ratingTx,
                   recalculation, keys, cascadeVars>>

\* The transaction on one chat summary: it reads the document it updates and
\* writes two fields that do not depend on what it read; it fails when the
\* document does not exist or the store rejects.
getUpdateChatroomForUserPromise(chatroomRef, ok) ==
    /\ handler.name = "onUpdateUserNameAndPic"
    /\ handler.pc = "update"
    /\ chatroomRef \in handler.pending
    /\ LET updatedChatroom ==
            [secondUserName |-> TemplateStr(getUserNameOrUsername(
                    StrField(handler.after, "name"), StrField(handler.after, "username"))),
             secondUserPicUrl |-> TemplateStr(StrField(handler.after, "userPicUrl"))]
       IN  IF ok /\ chatroomRef \in DOMAIN userChatrooms
           THEN /\ userChatrooms' = ApplyWrite(userChatrooms, chatroomRef,
                                               <<"update", updatedChatroom>>)
                /\ senderTx' = MarkConflicts(senderTx, SenderRefs, {chatroomRef})
                /\ receiverTx' = MarkConflicts(receiverTx, ReceiverRefs, {chatroomRef})
                /\ updateTx' = MarkConflicts(updateTx, ReceiverRefs, {chatroomRef})
           ELSE UNCHANGED <<userChatrooms, senderTx, receiverTx, updateTx>>
    /\ handler' = [handler EXCEPT
            !.pending = handler.pending \ {chatroomRef},
            !.pc = IF handler.pending = {chatroomRef} THEN "done" ELSE "update"]
    /\ UNCHANGED <<users, messages, updateEvents, invocation, reviews, reviewEvents,
                   ratingTx, recalculation, keys, cascadeVars>>

InitProfile ==
    /\ users = [u \in Uids |-> UserDoc(u)]
    /\ messages = <<>>
    /\ \E D \in SUBSET Uids :
        userChatrooms = [k \in {ChatroomRefOf(u) : u \in D} |-> StoredChatroom(k[1])]
    /\ updateEvents = {}
    /\ invocation = [h \in Invocations |-> NoInvocation]
    /\ senderTx = [h \in Invocations |-> TxIdle]
    /\ receiverTx = [h \in Invocations |-> TxIdle]
    /\ updateTx = [h \in Invocations |-> TxIdle]
    /\ RatingIdle
    /\ CascadeIdle

NextProfile ==
    \/ \E u \in Uids :
        \/ \E v \in {"Ann", "Bob"} : UpdateUser(u, "name", v)
        \/ \E v \in {"", "bob77"} : UpdateUser(u, "username", v)
        \/ \E v \in {"", "pic_a"} : UpdateUser(u, "userPicUrl", v)
    \/ onUpdateUserNameAndPic
    \/ getUserChatroomsAndUpdateUsername
    \/ \E ref \in handler.pending, ok \in BOOLEAN : getUpdateChatroomForUserPromise(ref, ok)

SpecProfile == InitProfile /\ [][NextProfile]_vars

\* The name shown for a user: the username if it is defined and not empty,
\* else the name.
DisplayName(user) ==
    IF "username" \in DOMAIN user /\ user.username # "" THEN user.username ELSE user.name

\* C19: the profile-update handler goes on to read and update chat summaries
\* exactly when the display name (username if defined and not empty, else
\* name) or the picture differ between the old and the new profile; when
\* both are equal it returns, and no chat summary is read or written but by
\* an invocation that went on.
C19_PropagatesIffNameOrPicChanged ==
    [][/\ (handler.name = "onUpdateUserNameAndPic" /\ handler.pc = "raised"
                /\ handler.pc' # "raised")
            => IF \/ DisplayName(handler.before) # DisplayName(handler.after)
                  \/ handler.before.userPicUrl # handler.after.userPicUrl
               THEN handler.pc' = "query"
               ELSE handler.pc' = "returned" /\ userChatrooms' = userChatrooms
       /\ handler.pc = "returned" => handler.pc' \in {"returned", "raised"}
       /\ userChatrooms' # userChatrooms => handler.pc = "update"
      ]_vars

\* The case of C19: an invocation for a change of the name of a user whose
\* username is shown has returned, after an earlier change was propagated
\* to the copy of the other user.
C19_Witness ==
    /\ handler.pc = "returned"
    /\ handler.before.name # handler.after.name
    /\ \E u \in Uids :
        /\ ChatroomRefOf(u) \in DOMAIN userChatrooms
        /\ userChatrooms[ChatroomRefOf(u)].secondUserName # StoredChatroom(u).secondUserName

(***************************************************************************)
(* exports.onUserStatusChange: the trigger on updates of /online/{userUid} *)
(* in the Realtime Database.                                               *)
(***************************************************************************)
\* set(data) without {merge: true}: the document becomes the data.
SetWhole(collection, id, data) ==
    [k \in DOMAIN collection \cup {id} |-> IF k = id THEN data ELSE collection[k]]

\* doc(id).set(data, {merge: true}): the fields of data are written, the
\* other fields stay; the document is created when it does not exist.
SetMerge(collection, id, data) ==
    [k \in DOMAIN collection \cup {id} |->
        IF k # id THEN collection[k]
        ELSE IF id \in DOMAIN collection THEN MergeFields(collection[id], data)
        ELSE data]

\* The client (or the database, on disconnect) updates /online/{userUid}.
SetOnlineStatus(u, newStatus) ==
    /\ HandlerIdle
    /\ u \in online
    /\ handler' = [NoHandler EXCEPT !.name = "onUserStatusChange", !.pc = "raised",
                                    !.userUid = u, !.newStatus = newStatus]
    /\ UNCHANGED <<users, messages, userChatrooms, updateEvents, invocation, senderTx,
                   receiverTx, updateTx, reviews, reviewEvents, ratingTx,
                   recalculation, keys, cascadeVars>>

\* now: Date.now()
onUserStatusChange(now) ==
    /\ handler.name = "onUserStatusChange"
    /\ handler.pc = "raised"
    /\ IF handler.newStatus = TRUE
       THEN \* user online: return null
            /\ handler' = [handler EXCEPT !.pc = "returned"]
            /\ UNCHANGED <<users, ratingTx>>
       ELSE /\ users' = SetMerge(users, handler.userUid,
                                 [is_online |-> FALSE, last_seen |-> now])
            /\ ratingTx' = MarkConflicts(ratingTx, ProviderRefs, {handler.userUid})
            /\ handler' = [handler EXCEPT !.pc = "done"]
    /\ UNCHANGED <<messages, userChatrooms, updateEvents, invocation, senderTx,
                   receiverTx, updateTx, reviews, reviewEvents, recalculation, keys,
                   cascadeVars>>

\* The user records the clients and the other handlers can have left: none
\* (the user was deleted), the profile alone, or the profile with the online
\* flag set, an earlier last_seen and a list of offer ratings.
StatusUsers(u) ==
    {UserDoc(u)} \cup
    {MergeFields(UserDoc(u), [is_online |-> TRUE, last_seen |-> 1, offerRatingList |-> l]) :
        l \in {<<>>} \cup {<<e>> : e \in StoredEntries(OfferX)}}

InitStatus ==
    /\ \E D \in SUBSET Uids :
        users \in {us \in [D -> UNION {StatusUsers(u) : u \in Uids}] :
                        \A u \in D : us[u] \in StatusUsers(u)}
    /\ invocation = [h \in Invocations |-> NoInvocation]
    /\ ChatIdle
    /\ RatingIdle
    /\ userFavorites = {}
    /\ online = Uids
    /\ bucket = {}
    /\ cascade = NoCascade
    /\ chatroomDeletes = NoObject

NextStatus ==
    \/ \E u \in Uids, newStatus \in BOOLEAN : SetOnlineStatus(u, newStatus)
    \/ \E now \in 1..MaxTimestamp : onUserStatusChange(now)

SpecStatus == InitStatus /\ [][NextStatus]_vars

\* C20: onUserStatusChange writes the record of the user only when the new
\* value of the status is not true; the write sets is_online to false and
\* last_seen and leaves every other field of the record (offerRatingList
\* among them) and every other record as they were; when the new value is
\* true the handler writes nothing.
C20_StatusWriteFrame ==
    [][/\ (handler.name = "onUserStatusChange" /\ handler.pc = "raised"
                /\ handler.pc' # "raised")
            => IF handler.newStatus = TRUE
               THEN users' = users
               ELSE LET u == handler.userUid
                        old == IF u \in DOMAIN users THEN users[u] ELSE NoObject
                    IN  /\ DOMAIN users' = DOMAIN users \cup {u}
                        /\ \A v \in DOMAIN users \ {u} : users'[v] = users[v]
                        /\ users'[u].is_online = FALSE
                        /\ users'[u].last_seen \in 1..MaxTimestamp
                        /\ DOMAIN users'[u] = DOMAIN old \cup {"is_online", "last_seen"}
                        /\ \A f \in DOMAIN old \ {"is_online", "last_seen"} :
                                users'[u][f] = old[f]
       /\ users' # users
            => /\ handler.name = "onUserStatusChange" /\ handler.pc = "raised"
               /\ handler.newStatus # TRUE
      ]_vars

\* The case of C20: the handler has written for a status that is not true,
\* to a record that held the online flag, an older last_seen and a rated
\* offer, and the list of offer ratings is still there.
C20_Witness ==
    /\ handler.name = "onUserStatusChange" /\ handler.pc = "done"
    /\ handler.userUid \in DOMAIN users
    /\ "offerRatingList" \in DOMAIN users[handler.userUid]
    /\ users[handler.userUid].offerRatingList # <<>>
    /\ users[handler.userUid].is_online = FALSE
    /\ users[handler.userUid].last_seen = MaxTimestamp

(***************************************************************************)
(* Creation of a copy by the create updaters: the update function finds    *)
(* doc.data() undefined and calls transaction.set.                         *)
(***************************************************************************)
\* The copy of user u made from the counterpart's identity fields and the
\* last-message fields of message i.
FreshChatroom(u, i) ==
    updateChatroomLastMessage(SecondUserFields(u),
                              messages[i].message_text, messages[i].timestamp)

\* C21: a create updater that reads a copy that does not exist creates it:
\* the sender-side updater sets the counterpart identity fields and the
\* last-message fields of the incoming message, the receiver-side updater
\* sets these and newMessageCount, the count its unread query has just
\* returned; the commit stores the document as set.
C21_MissingCopyIsCreated ==
    [][\A h \in Invocations :
        /\ (/\ senderTx[h].pc = "get" /\ senderTx'[h].pc = "commit"
            /\ senderChatroomRef(h) \notin DOMAIN userChatrooms)
            => senderTx'[h].write =
                    <<"set", FreshChatroom(SenderUid(h), invocation[h].message)>>
        /\ (/\ receiverTx[h].pc = "query" /\ receiverTx'[h].pc = "commit"
            /\ receiverTx[h].snap = <<>>)
            => receiverTx'[h].write =
                    <<"set", MergeFields(
                        FreshChatroom(ReceiverUid(h), invocation[h].message),
                        [newMessageCount |->
                            getReceiverChatroomUnreadMessagesPromise(ReceiverUid(h))])>>
        /\ (/\ senderTx[h].pc = "commit" /\ senderTx'[h].wrote
            /\ senderTx[h].write[1] = "set")
            => userChatrooms'[senderChatroomRef(h)] = senderTx[h].write[2]
        /\ (/\ receiverTx[h].pc = "commit" /\ receiverTx'[h].wrote
            /\ receiverTx[h].write[1] = "set")
            => userChatrooms'[receiverChatroomRef(h)] = receiverTx[h].write[2]
      ]_vars

(***************************************************************************)
(* The unread count a receiver-side transaction commits.                   *)
(***************************************************************************)
\* The step commits a write of transaction tx of invocation h that holds a
\* newMessageCount.
CommitsCount(txs, h) ==
    /\ txs[h].pc = "commit"
    /\ txs[h].wrote'
    /\ "newMessageCount" \in DOMAIN txs[h].write[2]

\* C22: whenever a receiver-side transaction (of the create updater or of
\* the update updater) commits a newMessageCount, the value is the number of
\* unread messages addressed to the receiver at the commit: a message
\* created or marked as read after the count query makes the attempt retry.
C22_CommittedCountIsCurrent ==
    [][\A h \in Invocations :
        /\ CommitsCount(receiverTx, h)
            => receiverTx[h].write[2].newMessageCount
                    = Cardinality(UnreadMessages(ReceiverUid(h)))
        /\ CommitsCount(updateTx, h)
            => updateTx[h].write[2].newMessageCount
                    = Cardinality(UnreadMessages(ReceiverUid(h)))
      ]_vars

(***************************************************************************)
(* The update updater alone: messages and copies are given, the copies     *)
(* with any counter or with none; the update events of the messages read   *)
(* are delivered one invocation after the other and nothing else writes.   *)
(***************************************************************************)
InitCounter ==
    /\ users = [u \in Uids |-> UserDoc(u)]
    /\ \E n \in 1..MaxMessages :
        messages \in {m \in [1..n -> [sender_uid : Uids, receiver_uid : Uids,
                                     message_text : {"t1", "t2", "t3"},
                                     timestamp : {1},
                                     isRead : BOOLEAN]] :
                        \A i \in 1..n : /\ m[i].sender_uid # m[i].receiver_uid
                                        /\ m[i].message_text = MessageTexts[i]}
    /\ \E D \in SUBSET Uids :
        userChatrooms \in
            {c \in [{ChatroomRefOf(u) : u \in D} -> UNION {ChatroomsOf(u) : u \in Uids}] :
                \A u \in D : c[ChatroomRefOf(u)] \in ChatroomsOf(u)}
    /\ updateEvents = {[message |-> i, before |-> FALSE, after |-> TRUE] :
                            i \in {k \in DOMAIN messages : messages[k].isRead}}
    /\ invocation = [h \in Invocations |-> NoInvocation]
    /\ senderTx = [h \in Invocations |-> TxIdle]
    /\ receiverTx = [h \in Invocations |-> TxIdle]
    /\ updateTx = [h \in Invocations |-> TxIdle]
    /\ RatingIdle
    /\ CascadeIdle

NextCounter ==
    \/ \E h \in Invocations : \E e \in updateEvents :
        AllTxFinished /\ onUpdateChatMessage(h, e)
    \/ \E h \in Invocations : UpdateGet(h) \/ UpdateQuery(h) \/ UpdateCommit(h)

SpecCounter == InitCounter /\ [][NextCounter]_vars

\* C23: when the transaction of getUpdateReceiverChatroomOnUpdatePromise has
\* completed without error on an existing copy, nothing else running, the
\* copy's newMessageCount (an absent field read as 0) is the number of
\* unread messages addressed to the receiver, whatever was stored before.
C23_UpdateRunSelfCorrects ==
    \A h \in Invocations :
        updateTx[h].pc = "done"
            => StoredNewMessageCount(ReceiverUid(h))
                    = Cardinality(UnreadMessages(ReceiverUid(h)))

(***************************************************************************)
(* The two decisions of the receiver-side create updater.                  *)
(***************************************************************************)
\* The attempt of invocation h has read an existing copy whose last message
\* is not older than the incoming one and whose counter is not the number
\* of unread messages its query returns in this state.
OnlyCountDiffers(h) ==
    /\ receiverTx[h].pc = "query"
    /\ receiverTx[h].snap # <<>>
    /\ NumField(receiverTx[h].snap[1], "lastMessageTimestamp") # UndefinedNum
    /\ messages[invocation[h].message].timestamp
            <= NumField(receiverTx[h].snap[1], "lastMessageTimestamp")
    /\ getReceiverChatroomUnreadMessagesPromise(ReceiverUid(h))
            # NumField(receiverTx[h].snap[1], "newMessageCount")

\* C24: when the incoming message is not newer than the stored last message
\* and the recomputed unread count differs from the stored one, the
\* receiver-side create updater writes the recomputed count and no
\* last-message field; the commit of such an update leaves the fields it
\* does not hold as stored.
C24_CountWrittenWithoutLastMessage ==
    [][\A h \in Invocations :
        /\ (OnlyCountDiffers(h) /\ receiverTx'[h].pc = "commit")
            => /\ receiverTx'[h].write[1] = "update"
               /\ NumField(receiverTx'[h].write[2], "newMessageCount")
                    = getReceiverChatroomUnreadMessagesPromise(ReceiverUid(h))
               /\ "lastMessageTimestamp" \notin DOMAIN receiverTx'[h].write[2]
               /\ "lastMessageText" \notin DOMAIN receiverTx'[h].write[2]
        /\ (/\ receiverTx[h].pc = "commit" /\ receiverTx'[h].wrote
            /\ receiverTx[h].write[1] = "update")
            => userChatrooms'[receiverChatroomRef(h)]
                    = MergeFields(userChatrooms[receiverChatroomRef(h)],
                                  receiverTx[h].write[2])
      ]_vars

(***************************************************************************)
(* The counter under the writes of the sender-side create updater.         *)
(***************************************************************************)
\* C25: the sender-side create updater never changes the unread counter:
\* whenever its transaction commits a write to a copy that exists, the copy
\* has the same newMessageCount, or none, after the write as before.
C25_SenderKeepsCounter ==
    [][\A h \in Invocations :
        (/\ senderTx[h].pc = "commit" /\ senderTx'[h].wrote
         /\ senderChatroomRef(h) \in DOMAIN userChatrooms)
            => NumField(userChatrooms'[senderChatroomRef(h)], "newMessageCount")
                    = NumField(userChatrooms[senderChatroomRef(h)], "newMessageCount")
      ]_vars

\* The case of C25: the only invocation so far has committed its sender-side
\* write and the sender's copy, which no other transaction of the
\* invocation writes, holds a counter of 1 or more.
C25_Witness ==
    /\ invocation[1].kind = "create" /\ invocation[2].kind = "none"
    /\ senderTx[1].pc = "done" /\ senderTx[1].wrote
    /\ NumField(userChatrooms[senderChatroomRef(1)], "newMessageCount") >= 1

(***************************************************************************)
(* The promise onNewChatMessage returns: Promise.all of the send and of    *)
(* the two updaters.                                                       *)
(***************************************************************************)
\* Promise.all(promises): rejected as soon as one of the promises is
\* rejected, resolved once all of them are resolved.
PromiseAll(promises) ==
    IF \E k \in DOMAIN promises : promises[k] = "rejected" THEN "rejected"
    ELSE IF \A k \in DOMAIN promises : promises[k] = "resolved" THEN "resolved"
    ELSE "pending"

\* The promise of sendToDevice of invocation h.
SendPromise(h) ==
    CASE invocation[h].notification = "sent" -> "resolved"
      [] invocation[h].notification = "failed" -> "rejected"
      [] OTHER -> "pending"

\* The promise returned by an invocation that has created its three promises.
ReturnedPromise(h) ==
    PromiseAll(<<SendPromise(h), senderTx[h].promise, receiverTx[h].promise>>)

\* C26: an invocation of onNewChatMessage that has issued the send and the
\* two updaters completes only after all three have settled, whether the
\* send succeeds or fails.
C26_CompletesAfterAllSettled ==
    \A h \in Invocations :
        (invocation[h].kind = "create" /\ ReturnedPromise(h) # "pending")
            => /\ SendPromise(h) # "pending"
               /\ senderTx[h].promise # "pending"
               /\ receiverTx[h].promise # "pending"

(***************************************************************************)
(* The clean-up of onUserDocumentDelete.                                   *)
(***************************************************************************)
\* The files deleteUserPic and deleteUserPhotos delete.
UserFiles(files) == {f \in files : f[2] \in {"userpic", "user_photos"}}

\* C27: in onUserDocumentDelete the presence value, the profile picture and
\* the user photos are removed only once the deletion of the favorites,
\* that of the chat summaries and that of the reviews of every offer have
\* all completed.
C27_CleanUpAfterDeletes ==
    [][(online' # online \/ UserFiles(bucket)' # UserFiles(bucket))
        => /\ DOMAIN cascade'.branch = Branches(cascade.deletedUser)
           /\ \A b \in DOMAIN cascade'.branch : cascade'.branch[b].pc = "resolved"
      ]_vars

\* The case of C27: the invocation for a user with offers, a picture and
\* photos has completed, and the presence value and the files are gone.
C27_Witness ==
    /\ cascade.pc = "done"
    /\ OfferList(cascade.deletedUser) # <<>>
    /\ "photoList" \in DOMAIN cascade.deletedUser
    /\ StrField(cascade.deletedUser, "userPicUrl") \notin {UndefinedStr, ""}
    /\ cascade.userUid \notin online
    /\ \A f \in bucket : f[1] # cascade.userUid

(***************************************************************************)
(* deleteCollection alone: the cascade of SpecCascade with no handler      *)
(* writing to the collections it deletes.                                  *)
(***************************************************************************)
NextDelete ==
    \/ \E u \in Uids : onUserDelete(u)
    \/ onUserDocumentDelete
    \/ \E b \in DOMAIN cascade.branch, ok \in BOOLEAN : deleteQueryBatch(b, ok)
    \/ \E b \in DOMAIN cascade.branch, ok \in BOOLEAN : getCommitBatchPromise(b, ok)

SpecDelete == InitCascade /\ [][NextDelete]_vars

\* The step commits the batch of deleteCollection b, and the batch holds
\* fewer documents than the batch size.
CommitsShortBatch(b) ==
    /\ b \in DOMAIN cascade.branch
    /\ cascade.branch[b].pc = "commit"
    /\ Cardinality(cascade.branch[b].docs) < deleteCollectionBatchSize
    /\ CollectionDocs(b)' = CollectionDocs(b) \ cascade.branch[b].docs
    /\ cascade'.branch[b].pc # "rejected"

\* C28 as stated: a batch that returns fewer documents than the batch size
\* is the last one: once it is deleted, deleteCollection completes without
\* another query.
C28_ShortBatchIsTerminal ==
    [][\A b \in Branches(cascade.deletedUser) :
        CommitsShortBatch(b) => cascade'.branch[b].pc = "resolved"]_vars

\* C28 as amended: a batch shorter than the batch size is deleted like any
\* other batch: deleteCollection then issues its query again, and the
\* collection it has emptied is found empty by that query.
C28_ShortBatchIsFollowedByQuery ==
    [][\A b \in Branches(cascade.deletedUser) :
        CommitsShortBatch(b)
            => /\ cascade'.branch[b].pc = "query"
               /\ CollectionDocs(b)' = {}]_vars

\* The case of C28: the chat summaries have been deleted, the last batch
\* shorter than the batch size, and their deleteCollection is at its query.
C28_Witness ==
    /\ cascade.pc = "running"
    /\ cascade.branch[ChatroomsBranch].pc = "query"
    /\ Cardinality(DOMAIN chatroomDeletes) % deleteCollectionBatchSize # 0
    /\ CollectionDocs(ChatroomsBranch) = {}

(***************************************************************************)
(* Termination of deleteCollection: no query and no commit fails, nothing  *)
(* is inserted.  The store answers every request and the event loop runs   *)
(* every callback it has scheduled: the steps of the deletions are fair.   *)
(***************************************************************************)
NextDeleteFair ==
    \/ \E u \in Uids : onUserDelete(u)
    \/ onUserDocumentDelete
    \/ \E b \in DOMAIN cascade.branch : deleteQueryBatch(b, TRUE)
    \/ \E b \in DOMAIN cascade.branch : getCommitBatchPromise(b, TRUE)

SpecDeleteFair ==
    /\ InitCascade
    /\ [][NextDeleteFair]_vars
    /\ WF_vars(onUserDocumentDelete)
    /\ WF_vars(\E b \in DOMAIN cascade.branch : deleteQueryBatch(b, TRUE))
    /\ WF_vars(\E b \in DOMAIN cascade.branch : getCommitBatchPromise(b, TRUE))

\* C29: every deleteCollection of the invocation, on a collection of
\* finitely many documents and with no insertion, eventually resolves;
\* every batch deletes at least one and at most batchSize documents; and a
\* deleteCollection resolves only at a query that returns no document.
C29_DeleteCollectionTerminates ==
    /\ [][\A b \in DOMAIN cascade.branch :
            /\ (cascade.branch[b].pc = "commit" /\ cascade'.branch[b].pc # "commit")
                => (Cardinality(CollectionDocs(b)) - Cardinality(CollectionDocs(b)'))
                        \in 1..deleteCollectionBatchSize
            /\ (cascade.branch[b].pc # "resolved" /\ cascade'.branch[b].pc = "resolved")
                => /\ cascade.branch[b].pc = "query"
                   /\ QueryLimit(CollectionDocs(b), deleteCollectionBatchSize) = {}
         ]_vars
    /\ (cascade.pc = "running")
            ~> (\A b \in DOMAIN cascade.branch : cascade.branch[b].pc = "resolved")

\* The case of C29: a collection of more documents than the batch size has
\* been deleted, in more than one batch, and the invocation has completed.
C29_Witness ==
    /\ cascade.pc = "done"
    /\ Cardinality(DOMAIN chatroomDeletes) > deleteCollectionBatchSize
    /\ CollectionDocs(ChatroomsBranch) = {}

(***************************************************************************)
(* A failure during deleteCollection.                                      *)
(***************************************************************************)
\* C30: when a query or a commit of deleteCollection fails, the deletion
\* rejects and issues no further batch: a commit either deletes its whole
\* batch and the deletion goes on, or deletes nothing and the deletion
\* rejects; a query that ends the deletion leaves the documents in place;
\* a rejected deletion stays rejected and its collection stays as it is,
\* the documents of earlier batches removed and the others in place.
C30_FailureLeavesPartialDeletion ==
    [][\A b \in DOMAIN cascade.branch :
        /\ (cascade.branch[b].pc = "commit" /\ cascade'.branch[b] # cascade.branch[b])
            => \/ /\ cascade'.branch[b].pc = "query"
                  /\ CollectionDocs(b)' = CollectionDocs(b) \ cascade.branch[b].docs
                  /\ CollectionDocs(b)' # CollectionDocs(b)
               \/ /\ cascade'.branch[b].pc = "rejected"
                  /\ CollectionDocs(b)' = CollectionDocs(b)
        /\ (cascade.branch[b].pc = "query" /\ cascade'.branch[b].pc = "rejected")
            => CollectionDocs(b)' = CollectionDocs(b)
        /\ cascade.branch[b].pc = "rejected"
            => /\ cascade'.branch[b].pc = "rejected"
               /\ CollectionDocs(b)' = CollectionDocs(b)
      ]_vars

\* The case of C30: the deletion of the chat summaries has rejected after a
\* batch was deleted, summaries are left, and another deletion of the
\* invocation has completed since.
C30_Witness ==
    /\ cascade.pc = "rejected"
    /\ cascade.branch[ChatroomsBranch].pc = "rejected"
    /\ DOMAIN chatroomDeletes # {}
    /\ CollectionDocs(ChatroomsBranch) # {}
    /\ cascade.branch[FavoritesBranch].pc = "resolved"

(***************************************************************************)
(* The last review of an entry.                                            *)
(***************************************************************************)
\* The fields of the offer's entry that describe its last review.
LastReviewOf(entry) ==
    [authorName |-> entry.offer_last_review_author_name,
     authorUserPicUrl |-> entry.offer_last_review_author_pic,
     text |-> entry.offer_last_review_text,
     timestamp |-> entry.offer_last_review_timestamp]

\* The same fields of a review document.
LastReviewFields(review) ==
    [authorName |-> StrField(review, "authorName"),
     authorUserPicUrl |-> StrField(review, "authorUserPicUrl"),
     text |-> StrField(review, "text"),
     timestamp |-> NumField(review, "timestamp")]

\* C31: when the transaction of recalculateRating reads a non-empty set of
\* reviews, the entry of the offer in the list it writes has the author
\* name, author picture, text and timestamp of a review of the set with the
\* greatest timestamp.
C31_LastReviewIsNewest ==
    [][\A h \in Invocations :
        (/\ ratingTx[h].pc = "query" /\ ratingTx'[h].pc = "commit"
         /\ ReviewsOfOffer(RatingData(h).offerReviewsDocumentUid) # {})
            => LET ids == ReviewsOfOffer(RatingData(h).offerReviewsDocumentUid)
                   list == ratingTx'[h].write[2].offerRatingList
               IN  /\ EntriesOf(list, RatingData(h).offerUid) # {}
                   /\ \A i \in EntriesOf(list, RatingData(h).offerUid) :
                        \E id \in ids :
                            /\ \A j \in ids : reviews[j].timestamp <= reviews[id].timestamp
                            /\ LastReviewOf(list[i]) = LastReviewFields(reviews[id])
      ]_vars

\* The case of C31: the offer has two reviews, the one created first the
\* newer and by another author, and the entry committed for both holds the
\* fields of that review.
C31_Witness ==
    \E o \in RatedOffers :
        LET first == <<OfferReviewsDocument(UidA, o), ReviewUid(1)>>
            second == <<OfferReviewsDocument(UidA, o), ReviewUid(2)>>
        IN  /\ first \in DOMAIN reviews /\ second \in DOMAIN reviews
            /\ reviews[first].timestamp > reviews[second].timestamp
            /\ reviews[first].authorName # reviews[second].authorName
            /\ "offerRatingList" \in DOMAIN users[UidA]
            /\ \E i \in EntriesOf(users[UidA].offerRatingList, o) :
                /\ users[UidA].offerRatingList[i].offer_review_count = 2
                /\ LastReviewOf(users[UidA].offerRatingList[i])
                        = LastReviewFields(reviews[first])

(***************************************************************************)
(* The write of a rerun of the receiver-side create transaction.           *)
(***************************************************************************)
\* C32: a rerun of the update function of the receiver-side create
\* transaction buffers a write that its own reads determine: the write holds
\* newMessageCount only if the count recomputed in the rerun differs from
\* the stored count the rerun read, and then the recomputed count, and it
\* holds the last-message fields only if the incoming message is newer than
\* the stored timestamp the rerun read.
C32_RetryCarriesNothingOver ==
    [][\A h \in Invocations :
        (/\ receiverTx[h].pc = "query" /\ receiverTx'[h].pc = "commit"
         /\ receiverTx[h].attempts >= 1
         /\ receiverTx'[h].write # <<>>)
            => LET snap == receiverTx[h].snap
                   written == receiverTx'[h].write[2]
                   unreadMessageCount ==
                        getReceiverChatroomUnreadMessagesPromise(ReceiverUid(h))
                   storedCount ==
                        IF snap # <<>> THEN NumField(snap[1], "newMessageCount") ELSE 0
                   storedTimestamp ==
                        IF snap # <<>> THEN NumField(snap[1], "lastMessageTimestamp")
                                       ELSE UndefinedNum
                   message == messages[invocation[h].message]
               IN  /\ "newMessageCount" \in DOMAIN written
                        => /\ unreadMessageCount # storedCount
                           /\ written.newMessageCount = unreadMessageCount
                   /\ ("lastMessageTimestamp" \in DOMAIN written
                            \/ "lastMessageText" \in DOMAIN written)
                        => \/ storedTimestamp = UndefinedNum
                           \/ message.timestamp > storedTimestamp
      ]_vars

(***************************************************************************)
(* exports.deleteOfferData.  ratingTx[h] of an invocation of it is at      *)
(*   "reviewsQuery" | "reviewsCommit"   deleteCollection of the reviews    *)
(*   "rejected"                         the deletion rejected              *)
(*   "get" | "commit" | ...             deleteOfferRatingListItem          *)
(***************************************************************************)
\* The call: data names the provider and the offer that review write e was
\* about.
deleteOfferData(h, e, auth) ==
    /\ NextInvocation(h)
    /\ e \in DOMAIN reviewEvents
    /\ IF ~auth
       THEN \* throw new functions.https.HttpsError('failed-precondition', ...)
            /\ invocation' = [invocation EXCEPT
                    ![h] = [NoInvocation EXCEPT !.kind = "rejected"]]
            /\ UNCHANGED ratingTx
       ELSE /\ invocation' = [invocation EXCEPT
                    ![h] = [NoInvocation EXCEPT !.kind = "deleteOffer", !.message = e]]
            /\ ratingTx' = [ratingTx EXCEPT ![h] = [TxIdle EXCEPT !.pc = "reviewsQuery"]]
    /\ UNCHANGED <<users, reviews, reviewEvents, recalculation, keys, handler>>
    /\ UNCHANGED <<messages, userChatrooms, updateEvents, senderTx, receiverTx,
                   updateTx, cascadeVars>>

\* The promise of deleteCollection rejected: the .then of deleteOfferData
\* does not run.
ReviewsRejected == [TxIdle EXCEPT !.pc = "rejected", !.promise = "rejected"]

\* getDeleteOfferReviewsPromise, deleteQueryBatch: query.get() and what
\* follows it; an empty snapshot resolves the deletion and the .then of
\* deleteOfferData starts the transaction of deleteOfferRatingListItem.
deleteReviewsQueryBatch(h, ok) ==
    /\ invocation[h].kind = "deleteOffer"
    /\ ratingTx[h].pc = "reviewsQuery"
    /\ LET snapshot == QueryLimit(ReviewsOfOffer(RatingData(h).offerReviewsDocumentUid),
                                  deleteCollectionBatchSize)
       IN  ratingTx' = [ratingTx EXCEPT
                ![h] = IF ~ok THEN ReviewsRejected
                       ELSE IF snapshot = {} THEN TxStart(NoObject)
                       ELSE [TxIdle EXCEPT !.pc = "reviewsCommit", !.snap = <<snapshot>>]]
    /\ UNCHANGED <<users, invocation, reviews, reviewEvents, recalculation, keys, handler>>
    /\ UNCHANGED <<messages, userChatrooms, updateEvents, senderTx, receiverTx,
                   updateTx, cascadeVars>>

\* getCommitBatchPromise of the reviews: batch.commit(), next query
commitReviewsBatch(h, ok) ==
    /\ invocation[h].kind = "deleteOffer"
    /\ ratingTx[h].pc = "reviewsCommit"
    /\ IF ~ok
       THEN /\ ratingTx' = [ratingTx EXCEPT ![h] = ReviewsRejected]
            /\ UNCHANGED reviews
       ELSE /\ ratingTx' = [ratingTx EXCEPT ![h] = [TxIdle EXCEPT !.pc = "reviewsQuery"]]
            /\ reviews' = [k \in DOMAIN reviews \ ratingTx[h].snap[1] |-> reviews[k]]
    /\ UNCHANGED <<users, invocation, reviewEvents, recalculation, keys, handler>>
    /\ UNCHANGED <<messages, userChatrooms, updateEvents, senderTx, receiverTx,
                   updateTx, cascadeVars>>

\* An update function that writes the list whether or not it holds the item.
ListItemAlwaysWritten(providerUser, offerUid) ==
    IF "offerRatingList" \notin DOMAIN providerUser
    THEN <<>>
    ELSE LET index == findIndex(providerUser.offerRatingList, offerUid)
         IN  <<"update", [offerRatingList |->
                    IF index >= 0
                    THEN spliceOne(providerUser.offerRatingList, index)
                    ELSE providerUser.offerRatingList]>>

\* The .then of the update function of deleteOfferRatingListItem: the write
\* it buffers, <<>> when it returns null.
ListItemRemoved(providerUser, offerUid) ==
    IF "offerRatingList" \notin DOMAIN providerUser
    THEN <<>>
    ELSE LET offerRatings == providerUser.offerRatingList
             index == findIndex(offerRatings, offerUid)
         IN  IF index >= 0 /\ index < Len(offerRatings)
             THEN <<"update", [offerRatingList |-> spliceOne(offerRatings, index)]>>
             ELSE <<>>

\* transaction.get(providerUserRef) and its .then; providerUser.offerRatingList
\* throws when the document does not exist.
deleteOfferRatingListItem(h) ==
    /\ invocation[h].kind = "deleteOffer"
    /\ ratingTx[h].pc = "get"
    /\ LET doc == DocData(users, providerUserRef(h))
       IN  IF doc = <<>>
           THEN ratingTx' = [ratingTx EXCEPT ![h] = TxEnd("threw", FALSE)]
           ELSE ratingTx' = [ratingTx EXCEPT
                    ![h].pc = "commit",
                    ![h].write = ListItemRemoved(doc[1], RatingData(h).offerUid)]
    /\ UNCHANGED <<users, invocation, reviews, reviewEvents, recalculation, keys, handler>>
    /\ UNCHANGED <<messages, userChatrooms, updateEvents, senderTx, receiverTx,
                   updateTx, cascadeVars>>

\* The commit of the transaction of deleteOfferRatingListItem.
ListItemCommit(h) ==
    /\ invocation[h].kind = "deleteOffer"
    /\ ratingTx[h].pc = "commit"
    /\ IF ratingTx[h].write = <<>>
       THEN /\ ratingTx' = [ratingTx EXCEPT ![h] = TxEnd("done", FALSE)]
            /\ UNCHANGED users
       ELSE IF ratingTx[h].conflict
       THEN /\ ratingTx' = [ratingTx EXCEPT ![h] = TxRetry(ratingTx[h])]
            /\ UNCHANGED users
       ELSE CommitRating(h, providerUserRef(h), ratingTx[h].write)
    /\ UNCHANGED <<invocation, reviews, reviewEvents, recalculation, keys, handler>>
    /\ UNCHANGED <<messages, userChatrooms, updateEvents, senderTx, receiverTx,
                   updateTx, cascadeVars>>

(***************************************************************************)
(* The offer-deletion specification: clients write reviews of the offers   *)
(* of UidA, call recalculateRating and delete offers; UidA starts with any *)
(* list earlier calls can have left.                                       *)
(***************************************************************************)
\* The entry a recalculation over one review leaves.
StoredEntry(o) == MergeFields([offer_uid |-> o], RatingFields(<<ReviewBy("Ann", 1, 1)>>))

\* Lists without duplicates, of the offers reviewed here.
StoredLists ==
    {<<>>, <<StoredEntry(OfferX)>>, <<StoredEntry(OfferY), StoredEntry(OfferX)>>}

InitOfferDelete ==
    /\ \E l \in StoredLists :
        users = [u \in Uids |->
                    IF u = UidA /\ l # <<>>
                    THEN MergeFields(UserDoc(u), [offerRatingList |-> l])
                    ELSE UserDoc(u)]
    /\ invocation = [h \in Invocations |-> NoInvocation]
    /\ ChatIdle
    /\ RatingIdle
    /\ CascadeIdle

NextOfferDelete ==
    \/ \E o \in RatedOffers, r \in {1, MaxRating}, ts \in {1, MaxTimestamp} :
            CreateReview(o, "Bob", r, ts)
    \/ \E h \in Invocations : \E e \in DOMAIN reviewEvents : \E auth \in BOOLEAN :
            recalculateRating(h, e, auth)
    \/ \E h \in Invocations : RatingGet(h)
    \/ \E h \in Invocations : RatingQuery(h)
    \/ \E h \in Invocations : RatingCommit(h)
    \/ \E h \in Invocations : \E e \in DOMAIN reviewEvents : \E auth \in BOOLEAN :
            deleteOfferData(h, e, auth)
    \/ \E h \in Invocations, ok \in BOOLEAN : deleteReviewsQueryBatch(h, ok)
    \/ \E h \in Invocations, ok \in BOOLEAN : commitReviewsBatch(h, ok)
    \/ \E h \in Invocations : deleteOfferRatingListItem(h)
    \/ \E h \in Invocations : ListItemCommit(h)

SpecOfferDelete == InitOfferDelete /\ [][NextOfferDelete]_vars

\* C33: under any interleaving of the transactions of recalculateRating and
\* deleteOfferRatingListItem on the provider, from a list without
\* duplicates, offerRatingList holds at most one entry for an offer and
\* every entry has offer_review_count of 1 or more.
C33_ListHasNoDuplicates ==
    /\ \A i, j \in DOMAIN StoredOfferRatings :
            StoredOfferRatings[i].offer_uid = StoredOfferRatings[j].offer_uid => i = j
    /\ \A i \in DOMAIN StoredOfferRatings :
            StoredOfferRatings[i].offer_review_count >= 1

\* The case of C33: a recalculation and a deletion have both committed a
\* write of the list, one after a rerun, and the list holds an entry.
C33_Witness ==
    /\ \E h \in Invocations :
            /\ invocation[h].kind = "rating" /\ ratingTx[h].wrote
    /\ \E h \in Invocations :
            /\ invocation[h].kind = "deleteOffer" /\ ratingTx[h].wrote
    /\ \E h \in Invocations : ratingTx[h].wrote /\ ratingTx[h].attempts >= 1
    /\ StoredOfferRatings # <<>>

\* deleteOfferData of invocation g has completed: the reviews are deleted
\* and the transaction of deleteOfferRatingListItem has committed.
OfferDeleted(g) ==
    /\ invocation[g].kind = "deleteOffer"
    /\ ratingTx[g].pc = "done"

\* C34: once deleteOfferData for an offer has completed and every
\* recalculateRating for the offer has finished, offerRatingList holds no
\* entry for the offer (no review was written since the call): a
\* recalculation that read the reviews before they were deleted leaves no
\* entry behind.
C34_NoEntryAfterOfferDelete ==
    \A g \in Invocations :
        (/\ OfferDeleted(g)
         /\ invocation[g].message = Len(reviewEvents)
         /\ \A h \in Invocations :
                (invocation[h].kind = "rating"
                    /\ RatingData(h).offerUid = RatingData(g).offerUid)
                    => TxFinished(ratingTx[h]))
            => EntriesOf(StoredOfferRatings, RatingData(g).offerUid) = {}

(***************************************************************************)
(* The deletion of both users of a relationship.  UidA was deleted first:  *)
(* the record is gone and the cascade has deleted the chat summary of      *)
(* UidA, whose onDelete event waits for its invocation; the deletions of   *)
(* the other data of UidA touch nothing read here and are left out.  UidB  *)
(* is deleted in the behaviour, and the presence of both may change.       *)
(***************************************************************************)
InitBothDeleted ==
    /\ users = [u \in {UidB} |-> UserDoc(u)]
    /\ \E n \in 1..MaxDocs :
        messages = [i \in 1..n |->
                        [sender_uid |-> IF i % 2 = 1 THEN UidA ELSE UidB,
                         receiver_uid |-> IF i % 2 = 1 THEN UidB ELSE UidA,
                         message_text |-> MessageTexts[i], timestamp |-> 1,
                         isRead |-> FALSE]]
    /\ userChatrooms = [k \in {ChatroomRefOf(UidB)} |-> StoredChatroom(UidB)]
    /\ updateEvents = {}
    /\ invocation = [h \in Invocations |-> NoInvocation]
    /\ senderTx = [h \in Invocations |-> TxIdle]
    /\ receiverTx = [h \in Invocations |-> TxIdle]
    /\ updateTx = [h \in Invocations |-> TxIdle]
    /\ RatingIdle
    /\ userFavorites = {}
    /\ online = Uids
    /\ bucket = {}
    /\ cascade = NoCascade
    /\ chatroomDeletes = [k \in {ChatroomRefOf(UidA)} |->
            [pc |-> "raised", deletedChatroom |-> StoredChatroom(UidA), docs |-> {}]]

NextBothDeleted ==
    \/ onUserDelete(UidB)
    \/ onUserDocumentDelete
    \/ \E b \in DOMAIN cascade.branch, ok \in BOOLEAN : deleteQueryBatch(b, ok)
    \/ \E b \in DOMAIN cascade.branch, ok \in BOOLEAN : getCommitBatchPromise(b, ok)
    \/ \E k \in DOMAIN chatroomDeletes : onChatroomOfUserDelete(k)
    \/ \E k \in DOMAIN chatroomDeletes, ok \in BOOLEAN : deleteMessagesQueryBatch(k, ok)
    \/ \E k \in DOMAIN chatroomDeletes, ok \in BOOLEAN : commitMessagesBatch(k, ok)
    \/ \E u \in Uids, newStatus \in BOOLEAN : SetOnlineStatus(u, newStatus)
    \/ \E now \in 1..MaxTimestamp : onUserStatusChange(now)

SpecBothDeleted == InitBothDeleted /\ [][NextBothDeleted]_vars

\* The record of u was deleted: at the start, or by onUserDelete.
WasDeleted(u) == u = UidA \/ (cascade.pc # "none" /\ cascade.userUid = u)

\* C35: onUserStatusChange never creates the record of a deleted user: when
\* it runs for a user whose record was deleted, users has no record of the
\* user afterwards, and an invocation of onChatroomOfUserDelete that later
\* reads the record of a deleted second user finds none and deletes the
\* messages.
C35_PresenceKeepsRecordDeleted ==
    [][/\ (/\ handler.name = "onUserStatusChange" /\ handler.pc = "raised"
           /\ handler.pc' # "raised"
           /\ handler.userUid \notin DOMAIN users)
            => handler.userUid \notin DOMAIN users'
       /\ \A k \in DOMAIN chatroomDeletes :
            (/\ chatroomDeletes[k].pc = "raised" /\ chatroomDeletes'[k].pc # "raised"
             /\ WasDeleted(chatroomDeletes[k].deletedChatroom.secondUserUid))
                => chatroomDeletes'[k].pc = "query"
      ]_vars

\* C36: both users held a chat summary and both records were deleted; once
\* the cascade and both invocations of onChatroomOfUserDelete have completed
\* without a failure, the relationship has no message left.
C36_MessagesDeletedWithBothUsers ==
    (/\ cascade.pc = "done"
     /\ \A u \in Uids :
            /\ ChatroomRefOf(u) \in DOMAIN chatroomDeletes
            /\ chatroomDeletes[ChatroomRefOf(u)].pc \in {"kept", "resolved"})
        => MessagesOf(getChatroomUid(UidA, UidB)) = {}

(***************************************************************************)
(* The chat summaries of a deleted user after the cascade.                 *)
(***************************************************************************)
\* C37: once the cascade for a deleted user has completed, no chat summary
\* is stored under the user again: no later step, the commit of a
\* transaction of onNewChatMessage that read the user records before the
\* deletion among them, adds a document to the user's chatroomsOfUser.
C37_NoCopyAfterCascade ==
    [][cascade.pc = "done"
        => \A k \in DOMAIN userChatrooms' :
                k[1] = cascade.userUid => k \in DOMAIN userChatrooms
      ]_vars

(***************************************************************************)
(* The rename specification: UidA sends messages to UidB, the handlers of  *)
(* the messages write the chat summaries, and UidA changes its name while  *)
(* they run; the change is propagated to the summary UidB keeps.           *)
(***************************************************************************)
NextRename ==
    \/ \E ts \in 1..MaxTimestamp : CreateMessage(UidA, UidB, ts)
    \/ \E h \in Invocations : \E i \in DOMAIN messages : onNewChatMessage(h, i)
    \/ \E h \in Invocations : SenderGet(h)
    \/ \E h \in Invocations : SenderCommit(h)
    \/ \E h \in Invocations : ReceiverGet(h)
    \/ \E h \in Invocations : ReceiverQuery(h)
    \/ \E h \in Invocations : ReceiverCommit(h)
    \/ \E v \in {"Ann", "Bob"} : UpdateUser(UidA, "name", v)
    \/ onUpdateUserNameAndPic
    \/ getUserChatroomsAndUpdateUsername
    \/ \E ref \in handler.pending, ok \in BOOLEAN : getUpdateChatroomForUserPromise(ref, ok)

SpecRename == Init /\ [][NextRename]_vars

\* A step of the transaction of getUpdateChatroomForUserPromise.
PropagationStep ==
    /\ handler.name = "onUpdateUserNameAndPic"
    /\ handler.pc = "update"
    /\ handler'.pending # handler.pending

\* C38: the propagation of the name and picture of user u writes
\* secondUserName and secondUserPicUrl only, and only to the copy the
\* counterpart keeps of a relationship listed in u's own chatroomsOfUser:
\* lastMessageText, lastMessageTimestamp, newMessageCount and every other
\* field stay as stored, the copies of u stay as they are, and no copy is
\* created.
C38_PropagationFrame ==
    [][PropagationStep
        => /\ DOMAIN userChatrooms' = DOMAIN userChatrooms
           /\ \A k \in DOMAIN userChatrooms :
                /\ k[1] = handler.userUid => userChatrooms'[k] = userChatrooms[k]
                /\ userChatrooms'[k] # userChatrooms[k]
                    => /\ \E own \in DOMAIN userChatrooms :
                            /\ own[1] = handler.userUid /\ own[2] = k[2]
                            /\ userChatrooms[own].secondUserUid = k[1]
                       /\ DOMAIN userChatrooms'[k]
                            = DOMAIN userChatrooms[k] \cup {"secondUserName", "secondUserPicUrl"}
                       /\ \A f \in DOMAIN userChatrooms[k] \ {"secondUserName", "secondUserPicUrl"} :
                            userChatrooms'[k][f] = userChatrooms[k][f]
      ]_vars

\* The case of C38: the new name of UidA is on the copy of UidB, which
\* holds a counter and the last message, and the copy of UidA has the name
\* of UidB.
C38_Witness ==
    /\ handler.name = "onUpdateUserNameAndPic" /\ handler.pc = "done"
    /\ ChatroomRefOf(UidA) \in DOMAIN userChatrooms
    /\ ChatroomRefOf(UidB) \in DOMAIN userChatrooms
    /\ userChatrooms[ChatroomRefOf(UidB)].secondUserName = "Bob"
    /\ users[UidA].name = "Bob"
    /\ userChatrooms[ChatroomRefOf(UidA)].secondUserName = "bob77"
    /\ "newMessageCount" \in DOMAIN userChatrooms[ChatroomRefOf(UidB)]
    /\ userChatrooms[ChatroomRefOf(UidB)].newMessageCount >= 1
    /\ userChatrooms[ChatroomRefOf(UidB)].lastMessageTimestamp >= 1

\* The rename after the reads: every invocation of onNewChatMessage reads
\* the user records before the first change of the name, so a copy holds a
\* new name only when the propagation wrote it.
NextRenameAfterRead ==
    \/ \E ts \in 1..MaxTimestamp : CreateMessage(UidA, UidB, ts)
    \/ \E h \in Invocations : \E i \in DOMAIN messages :
            handler.name = "none" /\ onNewChatMessage(h, i)
    \/ \E h \in Invocations : SenderGet(h)
    \/ \E h \in Invocations : SenderCommit(h)
    \/ \E h \in Invocations : ReceiverGet(h)
    \/ \E h \in Invocations : ReceiverQuery(h)
    \/ \E h \in Invocations : ReceiverCommit(h)
    \/ \E v \in {"Ann", "Bob"} : UpdateUser(UidA, "name", v)
    \/ onUpdateUserNameAndPic
    \/ getUserChatroomsAndUpdateUsername
    \/ \E ref \in handler.pending, ok \in BOOLEAN : getUpdateChatroomForUserPromise(ref, ok)

SpecRenameAfterRead == Init /\ [][NextRenameAfterRead]_vars

\* The propagation for the last change of the profile of u is over and the
\* copy at k, of a second user of u, holds the name it wrote.
PropagatedTo(k) ==
    /\ handler.name = "onUpdateUserNameAndPic"
    /\ handler.pc = "done"
    /\ k \in DOMAIN userChatrooms
    /\ userChatrooms[k].secondUserUid = handler.userUid
    /\ userChatrooms[k].secondUserName
            = getUserNameOrUsername(StrField(handler.after, "name"),
                                    StrField(handler.after, "username"))
    /\ isNameOrPicChanged(handler.before, handler.after)

\* C39: once the propagation for u has committed the new display name to
\* the copy of a counterpart, no write committed later by a transaction of
\* onNewChatMessage puts the old name back, the handler having read the
\* record of u before the change or not.
C39_NameStaysPropagated ==
    [][\A k \in DOMAIN userChatrooms :
        (PropagatedTo(k) /\ handler' = handler)
            => userChatrooms'[k].secondUserName = userChatrooms[k].secondUserName
      ]_vars

(***************************************************************************)
(* The mark-as-read updater on a copy that does not exist, and what it     *)
(* writes on one that does.                                                *)
(***************************************************************************)
\* C40: when the update function of the mark-as-read updater finds no copy
\* of the receiver it creates none, writes nothing, and the promise of the
\* updater resolves; whenever the updater writes, it writes newMessageCount
\* alone: the last-message fields, the identity fields and every other copy
\* are as before.
C40_UpdaterWritesCountOnly ==
    [][\A h \in Invocations :
        /\ (/\ updateTx[h].pc = "get" /\ updateTx'[h].pc # "get"
            /\ receiverChatroomRef(h) \notin DOMAIN userChatrooms)
            => /\ userChatrooms' = userChatrooms
               /\ TxFinished(updateTx'[h])
               /\ ~updateTx'[h].wrote
               /\ updateTx'[h].promise = "resolved"
        /\ (updateTx[h].pc = "commit" /\ updateTx'[h].wrote)
            => LET k == receiverChatroomRef(h)
               IN  /\ k \in DOMAIN userChatrooms
                   /\ DOMAIN userChatrooms' = DOMAIN userChatrooms
                   /\ \A j \in DOMAIN userChatrooms \ {k} :
                        userChatrooms'[j] = userChatrooms[j]
                   /\ DOMAIN userChatrooms'[k]
                        = DOMAIN userChatrooms[k] \cup {"newMessageCount"}
                   /\ \A f \in DOMAIN userChatrooms[k] \ {"newMessageCount"} :
                        userChatrooms'[k][f] = userChatrooms[k][f]
                   /\ userChatrooms'[k].newMessageCount
                        = updateTx[h].write[2].newMessageCount
      ]_vars

\* The case of C40: one invocation found no copy of its receiver and its
\* promise has resolved, no copy made; another has written the counter of a
\* copy that holds its last message and the identity of the second user.
C40_Witness ==
    /\ \E h \in Invocations :
        /\ invocation[h].kind = "update"
        /\ updateTx[h].pc = "threw" /\ updateTx[h].promise = "resolved"
        /\ receiverChatroomRef(h) \notin DOMAIN userChatrooms
    /\ \E h \in Invocations :
        /\ invocation[h].kind = "update"
        /\ updateTx[h].wrote
        /\ receiverChatroomRef(h) \in DOMAIN userChatrooms
        /\ {"lastMessageTimestamp", "lastMessageText", "secondUserUid", "secondUserName"}
                \subseteq DOMAIN userChatrooms[receiverChatroomRef(h)]

====
